---- MODULE Spec2Model ----
(***************************************************************************)
(* A model of the core of the pond client (package main of the client):    *)
(* sealing and unsealing with the DH ratchet, local and remote revocation, *)
(* the outbound queue, and the network goroutine (client.transact) running *)
(* concurrently with the state-owning goroutine.                           *)
(*                                                                         *)
(* Cryptography is symbolic.  A scalar is a positive integer, its public   *)
(* value is Pub(k); a box is a record naming the unordered pair of public  *)
(* values whose shared key sealed it, the nonce and the plaintext.  Every  *)
(* value drawn from the CSPRNG is one never drawn before.                  *)
(***************************************************************************)
EXTENDS Integers, Sequences, FiniteSets, TLC

\* ---------------------------------------------------------------- bounds
NContacts == 2
MaxMsgs == 2
MaxQueued == 3
MaxPeerRevs == 2
MaxInbox == 2
MaxRatchets == 2
MaxPeerKeys == 2
MaxMsgId == 2
NWriters == 1
MaxFile == 3
MaxLeaked == 2
MaxDials == 4
MaxMailbox == 2
MaxFailedDials == 7

Contacts == 1..NContacts

\* ------------------------------------------------------------- variables
VARIABLES
    contacts,               \* c.contacts: id -> Contact
    outbox,                 \* c.outbox: the queuedMessage objects, by position
    queue,                  \* c.queue: positions in outbox (the slice of pointers)
    queueMutex,             \* c.queueMutex: "free", "net" or "orch"
    revocationUpdateChan,   \* c.revocationUpdateChan
    messageSentChan,        \* c.messageSentChan
    fetchNowChan,           \* c.fetchNowChan: pending fetch-now signals
    net,                    \* the transact goroutine: position and locals
    orch,                   \* the state-owning goroutine: position and locals
    autoFetch,              \* c.autoFetch
    groupPriv,              \* c.groupPriv: our group, by number of revocations applied
    generation,             \* c.generation
    prevGroupPrivs,         \* c.prevGroupPrivs
    inbox,                  \* c.inbox
    transfer,               \* one transferDetachment goroutine: position and locals
    conns,                  \* the calls of dialServer made by transact, in order
    mailbox,                \* the messages waiting for us at our home server
    unsaved                 \* state was changed after the last c.save()

vars == <<contacts, outbox, queue, queueMutex, revocationUpdateChan,
          messageSentChan, fetchNowChan, net, orch, autoFetch,
          groupPriv, generation, prevGroupPrivs, inbox, transfer, conns, mailbox,
          unsaved>>

\* ------------------------------------------------------ sequence helpers
Last(s) == s[Len(s)]

Front(s) == SubSeq(s, 1, Len(s) - 1)

Range(s) == {s[i] : i \in 1..Len(s)}

\* --------------------------------------------------- detachment transfers
\* One background transfer (client.transferDetachment).  A file is a sequence
\* of chunks, named by their position in the complete file; every Read
\* returns one chunk.  Times are in seconds.
InitialBackoff == 10

MaxBackoff == 300

\* the size of the file on the server a download reads from
ServerSize == MaxFile

\* no transfer has been started
NoTransfer ==
    [pc |-> "idle", isUpload |-> FALSE, kill |-> FALSE, result |-> "none",
     err |-> "", conn |-> "none", openConns |-> 0, backoff |-> InitialBackoff,
     transferred |-> 0, total |-> 0, size |-> 0, filePos |-> 0, resume |-> 0,
     file |-> <<>>, serverGot |-> <<>>, srvPos |-> 0, faults |-> 0, failed |-> 0]

\* lines 1059-1069: uploadDetachment; total is the size of the local file
uploadDetachment(size) ==
    [NoTransfer EXCEPT !.pc = "connect", !.isUpload = TRUE, !.size = size]

\* lines 1114-1159: downloadDetachment; resume is the end of the local file
downloadDetachment(have) ==
    [NoTransfer EXCEPT !.pc = "connect", !.resume = have,
                       !.file = [i \in 1..have |-> i - 1]]

\* conn.Close() on the connection of the current attempt
Closed(t) ==
    IF t.conn = "open"
    THEN [t EXCEPT !.conn = "closed", !.openConns = @ - 1]
    ELSE t

\* return err / return nil
Returned(t, result, err) ==
    [t EXCEPT !.pc = "done", !.result = result, !.err = err]

\* ------------------------------------------------------ symbolic crypto
\* curve25519.ScalarBaseMult: scalars are positive, public values negative,
\* 0 is the zero value of a [32]byte.
Pub(k) == 0 - k

\* A segment of a sealed message: a 24-byte nonce, or a box.  A box holds
\* either a 32-byte public value (the ephemeral block) or plaintext bytes.
NonceSeg(n) == [t |-> "nonce", nonce |-> n, key |-> {}, pub |-> 0, bytes |-> <<>>]

\* box.Seal(out, message, nonce, peersPublicKey, privateKey)
BoxSealPub(p, n, theirPub, myPriv) ==
    [t |-> "pubbox", nonce |-> n, key |-> {theirPub, Pub(myPriv)}, pub |-> p, bytes |-> <<>>]

BoxSealBytes(b, n, theirPub, myPriv) ==
    [t |-> "box", nonce |-> n, key |-> {theirPub, Pub(myPriv)}, pub |-> 0, bytes |-> b]

\* box.Open(out, box, nonce, peersPublicKey, privateKey): the second result
BoxOpens(seg, n, theirPub, myPriv) ==
    /\ seg.t \in {"box", "pubbox"}
    /\ seg.nonce = n
    /\ seg.key = {theirPub, Pub(myPriv)}

\* ------------------------------------------------------ pond.Message codec
\* proto.Marshal(message): five fixed fields, then the body bytes.
\* inReplyTo = 0 and supportedVersion = -1 stand for an absent field.
Marshal(m) == <<m.id, m.inReplyTo, m.dhLen, m.myNextDh, m.supportedVersion>> \o m.body

HeaderFields == Len(Marshal([id |-> 0, inReplyTo |-> 0, dhLen |-> 0, myNextDh |-> 0,
                             supportedVersion |-> 0, body |-> <<>>]))

\* pond.MaxSerializedMessage, scaled down: the header and up to two body bytes
MaxSerializedMessage == 7

\* The generation counters are uint32; the model keeps GenerationBits bits.
GenerationBits == 3

Uint32(x) == x % (2 ^ GenerationBits)

\* -------------------------------------------------------- group signatures
\* bbssig, symbolically.  A member key is named by the member and by the
\* number of revocations applied to it; its tag changes with every update.
Tag(memberKey) == <<memberKey.member, memberKey.ver>>

\* (*bbssig.PrivateKey).GenerateRevocation
GenerateRevocation(memberKey) == [target |-> Tag(memberKey)]

\* (*bbssig.MemberKey).Update: false when the key is the revoked one
MemberUpdateOk(memberKey, rev) == Tag(memberKey) # rev.target

\* an Update that leaves every key as it is
MemberUpdateNone(memberKey, rev) == memberKey

MemberUpdate(memberKey, rev) ==
    IF MemberUpdateOk(memberKey, rev) THEN [memberKey EXCEPT !.ver = @ + 1] ELSE memberKey

\* (*bbssig.MemberKey).Sign over SHA-256 of the sealed bytes
GroupSign(keyVer, sealed) == [key |-> keyVer, digest |-> sealed]

NoSignature == [key |-> 0 - 1, digest |-> <<>>]

\* ------------------------------------------------- decryptMessage, unseal
OpensWithAny(seg, nonce, from) ==
    \E their \in {from.theirLastDHPublic, from.theirCurrentDHPublic} :
    \E private \in {from.lastDHPrivate, from.currentDHPrivate} :
        BoxOpens(seg, nonce, their, private)

\* lines 376-379 and 347-350: the ratchet step.  The value read from the
\* CSPRNG is a scalar nobody has seen: the next one of this contact's own.
Ratchet(from) ==
    [from EXCEPT !.lastDHPrivate = from.currentDHPrivate,
                 !.currentDHPrivate = from.currentDHPrivate + 1]

decryptMessageInnerAlwaysRatchets(seg, nonce, from) ==
    IF OpensWithAny(seg, nonce, from)
    THEN [ok |-> TRUE, from |-> Ratchet(from)]
    ELSE [ok |-> FALSE, from |-> from]

\* decryptMessageInner(sealed, nonce, from): whether the box opened, and the
\* contact afterwards
decryptMessageInner(seg, nonce, from) ==
    IF BoxOpens(seg, nonce, from.theirLastDHPublic, from.lastDHPrivate)
    THEN [ok |-> TRUE, from |-> from]
    ELSE IF BoxOpens(seg, nonce, from.theirCurrentDHPublic, from.lastDHPrivate)
    THEN [ok |-> TRUE, from |-> from]
    ELSE IF \/ BoxOpens(seg, nonce, from.theirLastDHPublic, from.currentDHPrivate)
            \/ BoxOpens(seg, nonce, from.theirCurrentDHPublic, from.currentDHPrivate)
    THEN [ok |-> TRUE, from |-> Ratchet(from)]
    ELSE [ok |-> FALSE, from |-> from]

DecryptFailed(from) == [ok |-> FALSE, panic |-> FALSE, plaintext |-> <<>>, from |-> from]

\* decryptMessage(sealed, nonce, from); rest is sealed with the nonce split
\* off.  A header that opens but is followed by fewer than 24 bytes makes
\* sealed[nonceLen:] fail at run time.
decryptMessage(rest, nonce, from) ==
    LET direct == decryptMessageInner(rest[1], nonce, from)
    IN  IF Len(rest) = 1 /\ direct.ok
        THEN [ok |-> TRUE, panic |-> FALSE, plaintext |-> rest[1].bytes,
              from |-> direct.from]
        ELSE IF Len(rest) > 1
        THEN LET header == IF rest[1].t = "pubbox"
                           THEN decryptMessageInner(rest[1], nonce, from)
                           ELSE [ok |-> FALSE, from |-> from]
                 f == header.from
             IN  IF ~header.ok
                 THEN DecryptFailed(f)
                 ELSE IF Len(rest) < 3
                 THEN [DecryptFailed(f) EXCEPT !.panic = TRUE]
                 ELSE LET innerNonce == rest[2].nonce
                          ephemeralPublicKey == rest[1].pub
                          inner == rest[3]
                      IN  IF BoxOpens(inner, innerNonce, ephemeralPublicKey,
                                      f.lastDHPrivate)
                          THEN [ok |-> TRUE, panic |-> FALSE,
                                plaintext |-> inner.bytes, from |-> f]
                          ELSE IF BoxOpens(inner, innerNonce, ephemeralPublicKey,
                                           f.currentDHPrivate)
                          THEN [ok |-> TRUE, panic |-> FALSE,
                                plaintext |-> inner.bytes, from |-> Ratchet(f)]
                          ELSE DecryptFailed(f)
        ELSE DecryptFailed(from)

\* proto.Unmarshal: the inverse of Marshal; fails on a truncated header
UnmarshalOk(bytes) == Len(bytes) >= HeaderFields

Unmarshal(bytes) ==
    [id |-> bytes[1], inReplyTo |-> bytes[2], dhLen |-> bytes[3], myNextDh |-> bytes[4],
     supportedVersion |-> bytes[5], body |-> SubSeq(bytes, HeaderFields + 1, Len(bytes))]

NoMessage == [id |-> 0, inReplyTo |-> 0, dhLen |-> 0, myNextDh |-> 0,
              supportedVersion |-> 0 - 1, body |-> <<>>]

\* len(from.theirCurrentDHPublic)
DHPublicLen == 32

\* ------------------------------------------------------------ client.send
PlaintextWithoutPrefix(messageBytes, r) ==
    messageBytes \o [i \in 1..(MaxSerializedMessage + 1 - Len(messageBytes)) |-> r + 1]

\* the plaintext without the padding of line 184
PlaintextUnpadded(messageBytes, r) == <<Len(messageBytes)>> \o messageBytes

\* lines 181-184: LE32(len) || messageBytes || random padding
Plaintext(messageBytes, r) ==
    <<Len(messageBytes)>> \o messageBytes
        \o [i \in 1..(MaxSerializedMessage - Len(messageBytes)) |-> r + 1]

\* lines 186-212: the sealed bytes for contact record `to`; r + 1 .. r + 4
\* are the values this call draws from c.rand.
Sealed(to, messageBytes, r) ==
    LET plaintext == Plaintext(messageBytes, r)
        innerNonce == r + 2
        private == r + 3
        outerNonce == r + 4
    IN  IF to.supportedVersion >= 1
        THEN << NonceSeg(outerNonce),
                BoxSealPub(Pub(private), outerNonce, to.theirCurrentDHPublic, to.lastDHPrivate),
                NonceSeg(innerNonce),
                BoxSealBytes(plaintext, innerNonce, to.theirCurrentDHPublic, private) >>
        ELSE << NonceSeg(innerNonce),
                BoxSealBytes(plaintext, innerNonce, to.theirCurrentDHPublic, to.lastDHPrivate) >>

\* The values c.rand yields while the i-th outbox entry is built
FreshFor(i) == 1000 + 4 * (i - 1)

\* the queuedMessage of a delivery sealed to the peer's previous DH value
DeliveryEntrySealedToLast(toId, to, message, r) ==
    LET sealed == Sealed([to EXCEPT !.theirCurrentDHPublic = to.theirLastDHPublic],
                         Marshal(message), r)
    IN  [id |-> message.id, to |-> toId, server |-> to.theirServer,
         revocation |-> FALSE,
         signature |-> GroupSign(to.myGroupKey, sealed),
         generation |-> to.generation, sealed |-> sealed,
         sent |-> FALSE, acked |-> FALSE]

\* lines 223-238: the queuedMessage of a delivery; r + 1 .. r + 4 are the
\* values drawn from c.rand.
DeliveryEntry(toId, to, message, r) ==
    LET sealed == Sealed(to, Marshal(message), r)
    IN  [id |-> message.id, to |-> toId, server |-> to.theirServer,
         revocation |-> FALSE,
         signature |-> GroupSign(to.myGroupKey, sealed),
         generation |-> to.generation, sealed |-> sealed,
         sent |-> FALSE, acked |-> FALSE]

\* a revocation entry that names the generation after the increment
RevocationEntryPostIncrement(id, toId, server, gen) ==
    [id |-> id, to |-> toId, server |-> server, revocation |-> TRUE,
     signature |-> NoSignature, generation |-> Uint32(gen + 1), sealed |-> <<>>,
     sent |-> FALSE, acked |-> FALSE]

\* lines 275-310: the queuedMessage of a revocation, signed with our
\* identity key; generation is Revocation.Generation.
RevocationEntry(id, toId, server, gen) ==
    [id |-> id, to |-> toId, server |-> server, revocation |-> TRUE,
     signature |-> NoSignature, generation |-> gen, sealed |-> <<>>,
     sent |-> FALSE, acked |-> FALSE]

\* The message the compose and acknowledge paths hand to send: a fresh id,
\* our next DH public value and our protocol version.
OutgoingMessage(id, to, inReplyTo, body) ==
    [id |-> id, inReplyTo |-> inReplyTo, dhLen |-> DHPublicLen,
     myNextDh |-> Pub(to.currentDHPrivate), supportedVersion |-> 1, body |-> body]

OrchIdle == [pc |-> "idle", pending |-> <<>>, to |-> 0,
             upd |-> [id |-> 0, key |-> 0, generation |-> 0], why |-> "", k |-> 0]

Running == net.pc # "panic" /\ orch.pc # "panic"

netOnly == <<revocationUpdateChan, messageSentChan, fetchNowChan, net, autoFetch>>

groupVars == <<groupPriv, generation, prevGroupPrivs>>

\* client.send(to, message), up to the Lock inside c.enqueue
send(toId, message) ==
    /\ orch.pc = "idle"
    /\ queueMutex = "free"
    /\ Len(Marshal(message)) <= MaxSerializedMessage
    /\ orch' = [OrchIdle EXCEPT !.pc = "enqueue",
                    !.pending = <<DeliveryEntry(toId, contacts[toId], message,
                                                FreshFor(Len(outbox) + 1))>>]
    /\ queueMutex' = "orch"
    /\ UNCHANGED <<contacts, outbox, queue>>
    /\ UNCHANGED groupVars

\* client.enqueue (Lock; append; Unlock) and the append to c.outbox that
\* follows it in send and in revoke
enqueue ==
    /\ orch.pc = "enqueue"
    /\ queue' = Append(queue, Len(outbox) + 1)
    /\ outbox' = outbox \o orch.pending
    /\ queueMutex' = "free"
    /\ orch' = OrchIdle
    /\ UNCHANGED <<contacts, inbox>>
    /\ UNCHANGED groupVars

\* client.revoke(to), up to the Lock inside c.enqueue
revoke(toId) ==
    LET revocation == GenerateRevocation(contacts[toId].groupKey)
    IN  /\ orch.pc = "idle"
        /\ queueMutex = "free"
        /\ ~contacts[toId].revoked
        /\ contacts' = [c \in Contacts |->
              IF c = toId THEN [contacts[c] EXCEPT !.revoked = TRUE]
              ELSE [contacts[c] EXCEPT
                      !.previousTags = Append(@, Tag(contacts[c].groupKey)),
                      !.groupKey = MemberUpdate(@, revocation)]]
        /\ prevGroupPrivs' = Append(prevGroupPrivs, groupPriv)
        /\ groupPriv' = groupPriv + 1
        /\ generation' = Uint32(generation + 1)
        /\ orch' = [OrchIdle EXCEPT !.pc = "enqueue",
                        !.pending = <<RevocationEntry(Len(outbox) + 1, toId,
                                                  contacts[toId].theirServer, generation)>>]
        /\ queueMutex' = "orch"
        /\ UNCHANGED <<outbox, queue, inbox>>

\* ------------------------------------------------- client.processMessageSent
\* A pond.SignedRevocation as processMessageSent reads it: the generation
\* it names, the length of its Signature, whether the first SignatureSize
\* bytes of the Signature verify under the recipient's key, whether the
\* revocation unmarshals, and whether it revokes our member key.
SignatureSize == 64

NoRevocation == [present |-> FALSE, generation |-> 0, sigLen |-> 0, sigOK |-> FALSE,
                 parses |-> FALSE, hitsUs |-> FALSE]

\* the built-in copy(dst, src): the number of elements copied
Copied(dstLen, srcLen) == IF srcLen < dstLen THEN srcLen ELSE dstLen

\* lines 602-613: copy(sig[:], revSig) != len(sig), then ed25519.Verify
SignatureChecks(rev) ==
    Copied(SignatureSize, rev.sigLen) = SignatureSize /\ rev.sigOK

\* the generation check left out
GenerationMatchesAlways(rev, to) == TRUE

\* lines 588-591: gen != to.generation
GenerationMatches(rev, to) == rev.generation = to.generation

\* lines 576-582: the first outbox entry with the id
OutboxIndex(id) == CHOOSE i \in 1..Len(outbox) :
                      /\ outbox[i].id = id
                      /\ \A j \in 1..(i - 1) : outbox[j].id # id

\* lines 627-638: the queue without the entries to contact toId
PurgedQueueInverted(q, toId) ==
    SelectSeq(q, LAMBDA i : outbox[i].to = toId)

PurgedQueue(q, toId) == SelectSeq(q, LAMBDA i : outbox[i].to # toId)

\* lines 575-661, up to the Lock of the purge or the send on
\* revocationUpdateChan
processMessageSent ==
    /\ orch.pc = "idle"
    /\ messageSentChan # <<>>
    /\ messageSentChan' = Tail(messageSentChan)
    /\ LET msr == Head(messageSentChan)
           i == OutboxIndex(msr.id)
           toId == outbox[i].to
           to == contacts[toId]
           rev == msr.revocation
       IN  IF ~rev.present
           THEN /\ outbox' = [outbox EXCEPT ![i].sent = TRUE]
                /\ UNCHANGED <<contacts, orch, queueMutex>>
           ELSE IF ~GenerationMatches(rev, to) \/ ~SignatureChecks(rev) \/ ~rev.parses
           THEN UNCHANGED <<outbox, contacts, orch, queueMutex>>
           ELSE IF rev.hitsUs
           THEN /\ queueMutex = "free"
                /\ contacts' = [contacts EXCEPT ![toId].generation = Uint32(@ + 1),
                                                ![toId].revokedUs = TRUE]
                /\ orch' = [OrchIdle EXCEPT !.pc = "purge", !.to = toId]
                /\ queueMutex' = "orch"
                /\ UNCHANGED outbox
           ELSE /\ contacts' = [contacts EXCEPT ![toId].generation = Uint32(@ + 1),
                                                ![toId].myGroupKey = @ + 1]
                /\ orch' = [OrchIdle EXCEPT !.pc = "postRev",
                               !.upd = [id |-> toId, key |-> to.myGroupKey + 1,
                                        generation |-> Uint32(to.generation + 1)]]
                /\ UNCHANGED <<outbox, queueMutex>>
    /\ UNCHANGED <<queue, revocationUpdateChan, fetchNowChan, net, autoFetch, inbox>>
    /\ UNCHANGED groupVars

\* lines 629-639: the purge, inside the critical section
purgeQueue ==
    /\ orch.pc = "purge"
    /\ queue' = PurgedQueue(queue, orch.to)
    /\ queueMutex' = "free"
    /\ orch' = OrchIdle
    /\ UNCHANGED <<contacts, outbox, inbox>>
    /\ UNCHANGED netOnly
    /\ UNCHANGED groupVars

\* capacity of c.revocationUpdateChan and of c.messageSentChan
RevocationUpdateChanCap == 2

MessageSentChanCap == 1

\* line 647: c.revocationUpdateChan <- revocationUpdate{msg.to, dupKey, to.generation}
postRevocationUpdate ==
    /\ orch.pc = "postRev"
    /\ Len(revocationUpdateChan) < RevocationUpdateChanCap
    /\ revocationUpdateChan' = Append(revocationUpdateChan, orch.upd)
    /\ orch' = OrchIdle
    /\ UNCHANGED <<contacts, outbox, queue, queueMutex, messageSentChan, fetchNowChan,
                   net, autoFetch, inbox>>
    /\ UNCHANGED groupVars

\* --------------------------------------------------------- client.transact
NoUpdate == [id |-> 0, key |-> 0, generation |-> 0]

\* a pond.Fetched: the group signature (the group it verifies under and the
\* tag it opens to) and the sealed message
NoNewMessage == [signature |-> [group |-> 0 - 1, tag |-> <<0, 0>>], message |-> <<>>]

\* a fetched message whose group signature verifies under none of our keys
BadSignatureMessage == [signature |-> [group |-> 0 - 2, tag |-> <<0, 0>>], message |-> <<>>]


NetStart == [pc |-> "top", startup |-> TRUE, head |-> 0, isFetch |-> FALSE,
             useAnonymousIdentity |-> FALSE,
             ackChan |-> FALSE, upd |-> NoUpdate, scan |-> <<>>,
             reply |-> NoRevocation, newMessage |-> NoNewMessage]

orchOnly == <<contacts, orch, inbox>>

\* the head of the loop without the send on ackChan of lines 871-874
BackToWaitWithoutAck(n) == [n EXCEPT !.pc = "drain", !.head = 0,
                                     !.useAnonymousIdentity = FALSE,
                                     !.reply = NoRevocation,
                                     !.newMessage = NoNewMessage]

\* lines 869-888: back at the head of the loop after a transaction, the
\* worker sends a pending fetch-now acknowledgement, sets the timer and
\* enters the wait.
BackToWait(n) == [n EXCEPT !.pc = "drain", !.ackChan = FALSE, !.head = 0,
                           !.useAnonymousIdentity = FALSE,
                           !.reply = NoRevocation, !.newMessage = NoNewMessage]

\* lines 866-870 and 932: the first pass of the loop.  With auto-fetch on,
\* the startup transaction skips the wait.
NetLoopTop ==
    /\ net.pc = "top"
    /\ IF ~net.startup \/ ~autoFetch
       THEN net' = BackToWait(net)
       ELSE net' = [net EXCEPT !.pc = "choose", !.startup = FALSE]
    /\ UNCHANGED <<outbox, queue, queueMutex, revocationUpdateChan, messageSentChan,
                   fetchNowChan, autoFetch>>
    /\ UNCHANGED orchOnly
    /\ UNCHANGED groupVars

\* The receive of a revocation update (lines 894-903 and 919-928): the
\* update is taken and resignQueuedMessages starts ranging over c.queue,
\* which it reads without taking c.queueMutex.
TakeRevocationUpdate ==
    /\ revocationUpdateChan # <<>>
    /\ revocationUpdateChan' = Tail(revocationUpdateChan)
    /\ net' = [net EXCEPT !.pc = "resign", !.upd = Head(revocationUpdateChan),
                          !.scan = queue]

\* lines 893-906: the non-blocking select
NetDrain ==
    /\ net.pc = "drain"
    /\ IF revocationUpdateChan # <<>>
       THEN TakeRevocationUpdate
       ELSE /\ net' = [net EXCEPT !.pc = "select"]
            /\ UNCHANGED revocationUpdateChan
    /\ UNCHANGED <<outbox, queue, queueMutex, messageSentChan, fetchNowChan,
                   autoFetch>>
    /\ UNCHANGED orchOnly
    /\ UNCHANGED groupVars

\* lines 909-929: the blocking select.  Go chooses among the ready cases
\* at random.
NetSelectFetchNow ==
    /\ net.pc = "select"
    /\ fetchNowChan > 0
    /\ fetchNowChan' = fetchNowChan - 1
    /\ net' = [net EXCEPT !.pc = "choose", !.ackChan = TRUE, !.startup = FALSE,
                          !.upd = NoUpdate]
    /\ UNCHANGED <<outbox, queue, queueMutex, revocationUpdateChan, messageSentChan,
                   autoFetch>>
    /\ UNCHANGED orchOnly
    /\ UNCHANGED groupVars

NetSelectTimer ==
    /\ net.pc = "select"
    /\ autoFetch
    /\ net' = [net EXCEPT !.pc = "choose", !.startup = FALSE, !.upd = NoUpdate]
    /\ UNCHANGED <<outbox, queue, queueMutex, revocationUpdateChan, messageSentChan,
                   fetchNowChan, autoFetch>>
    /\ UNCHANGED orchOnly
    /\ UNCHANGED groupVars

NetSelectUpdate ==
    /\ net.pc = "select"
    /\ TakeRevocationUpdate
    /\ UNCHANGED <<outbox, queue, queueMutex, messageSentChan, fetchNowChan, autoFetch>>
    /\ UNCHANGED orchOnly
    /\ UNCHANGED groupVars

\* a blocking select without the case of revocationUpdateChan
NetSelectWithoutUpdates == NetSelectFetchNow \/ NetSelectTimer

NetSelect == NetSelectFetchNow \/ NetSelectTimer \/ NetSelectUpdate

\* lines 841-857: one iteration of the loop of resignQueuedMessages over
\* the entry m.  A revocation entry has no Deliver: reading
\* m.request.Deliver.Message is a nil dereference.
ResignEntry(m) ==
    IF outbox[m].to # net.upd.id
    THEN /\ net' = [net EXCEPT !.scan = Tail(@)]
         /\ UNCHANGED outbox
    ELSE IF outbox[m].revocation
    THEN /\ net' = [net EXCEPT !.pc = "panic"]
         /\ UNCHANGED outbox
    ELSE /\ net' = [net EXCEPT !.scan = Tail(@)]
         /\ outbox' = [outbox EXCEPT
                ![m].signature = GroupSign(net.upd.key, outbox[m].sealed),
                ![m].generation = net.upd.generation]

\* client.resignQueuedMessages, one entry at a time
resignQueuedMessages ==
    /\ net.pc = "resign"
    /\ IF net.scan = <<>>
       THEN /\ net' = [net EXCEPT !.pc = "drain"]
            /\ UNCHANGED outbox
       ELSE ResignEntry(Head(net.scan))
    /\ UNCHANGED <<queue, queueMutex, revocationUpdateChan, messageSentChan,
                   fetchNowChan, autoFetch>>
    /\ UNCHANGED orchOnly
    /\ UNCHANGED groupVars

\* a rotation the other way round: the tail is moved to the front
RotateTailToFront(q) == <<Last(q)>> \o Front(q)

\* lines 951-952: head = c.queue[0]; c.queue = append(c.queue[1:], head)
Rotate(q) == Append(Tail(q), Head(q))

\* lines 940-961: choosing the transaction, under c.queueMutex
NetChoose ==
    /\ net.pc = "choose"
    /\ queueMutex = "free"
    /\ IF queue = <<>>
       THEN /\ net' = [net EXCEPT !.pc = "io", !.isFetch = TRUE, !.head = 0,
                                   !.useAnonymousIdentity = FALSE]
            /\ UNCHANGED queue
       ELSE /\ net' = [net EXCEPT !.pc = "io", !.isFetch = FALSE, !.head = Head(queue),
                                   !.useAnonymousIdentity = ~outbox[Head(queue)].revocation]
            /\ queue' = Rotate(queue)
    /\ UNCHANGED <<outbox, queueMutex, revocationUpdateChan, messageSentChan, fetchNowChan,
                   autoFetch>>
    /\ UNCHANGED orchOnly
    /\ UNCHANGED groupVars

\* The signed revocations a server can attach to GENERATION_REVOKED for a
\* request to a contact: one the peer really issued (its signature
\* verifies; it revokes us or another member of the peer's group), or
\* anything else (its signature does not verify).  A peer issues at most
\* MaxPeerRevs revocations.
RevocationPayloads ==
    [present : {TRUE}, generation : 0..(MaxPeerRevs - 1), sigLen : {SignatureSize},
     sigOK : {TRUE}, parses : {TRUE}, hitsUs : BOOLEAN]
    \cup [present : {TRUE}, generation : {0}, sigLen : {SignatureSize},
          sigOK : {FALSE}, parses : {TRUE}, hitsUs : {FALSE}]

\* lines 963-997: dial, write the request, read the reply, and the branch
\* taken on the reply.  The queue is not touched here.  NetIdle is what
\* these steps leave alone.
NetIdle ==
    /\ UNCHANGED <<outbox, queue, queueMutex, revocationUpdateChan, messageSentChan,
                   fetchNowChan, autoFetch>>
    /\ UNCHANGED orchOnly
    /\ UNCHANGED groupVars

\* dial, write or read failed (lines 963-977)
NetFails ==
    /\ net.pc = "io"
    /\ net' = BackToWait(net)
    /\ NetIdle

\* a fetch answered without a message, or with an error status
NetFetchEmpty ==
    /\ net.pc = "io" /\ net.isFetch
    /\ net' = BackToWait(net)
    /\ NetIdle

\* lines 979-981: a fetch answered with a fetched message
NetFetchMessage ==
    /\ net.pc = "io" /\ net.isFetch
    /\ net' = [net EXCEPT !.pc = "newMsg", !.newMessage = BadSignatureMessage]
    /\ NetIdle

\* lines 979 and 984: a send answered with no status
NetSendAccepted ==
    /\ net.pc = "io" /\ ~net.isFetch
    /\ net' = [net EXCEPT !.pc = "remove"]
    /\ NetIdle

\* lines 993-996: a send answered GENERATION_REVOKED with a revocation
NetSendRevoked ==
    /\ net.pc = "io" /\ ~net.isFetch
    /\ \E r \in RevocationPayloads :
          net' = [net EXCEPT !.pc = "postRevoked", !.reply = r]
    /\ NetIdle

\* a send answered with any other status, OK spelled out included
NetSendRefused ==
    /\ net.pc = "io" /\ ~net.isFetch
    /\ net' = BackToWait(net)
    /\ NetIdle

NetTransaction ==
    \/ NetFails
    \/ NetFetchEmpty
    \/ NetFetchMessage
    \/ NetSendAccepted
    \/ NetSendRevoked
    \/ NetSendRefused

\* line 986: c.queue = c.queue[:len(c.queue)-1]
DropLast(q) == Front(q)

\* lines 985-990: the removal after a successful send, under c.queueMutex.
\* Slicing an empty queue to [:-1] panics.
NetRemove ==
    /\ net.pc = "remove"
    /\ queueMutex = "free"
    /\ IF queue = <<>>
       THEN /\ net' = [net EXCEPT !.pc = "panic"]
            /\ UNCHANGED queue
       ELSE /\ queue' = DropLast(queue)
            /\ net' = [net EXCEPT !.pc = "postSent"]
    /\ UNCHANGED <<outbox, queueMutex, revocationUpdateChan, messageSentChan,
                   fetchNowChan, autoFetch>>
    /\ UNCHANGED orchOnly
    /\ UNCHANGED groupVars

\* lines 991 and 996: c.messageSentChan <- messageSendResult{...}
NetPostMessageSent ==
    /\ net.pc \in {"postSent", "postRevoked"}
    /\ Len(messageSentChan) < MessageSentChanCap
    /\ messageSentChan' = Append(messageSentChan,
           [id |-> outbox[net.head].id,
            revocation |-> IF net.pc = "postRevoked" THEN net.reply ELSE NoRevocation])
    /\ net' = BackToWait(net)
    /\ UNCHANGED <<outbox, queue, queueMutex, revocationUpdateChan, fetchNowChan,
                   autoFetch>>
    /\ UNCHANGED orchOnly
    /\ UNCHANGED groupVars

\* the duplicate check without the comparison of the sender
DuplicateFromAnyone(fromId, msg) ==
    \E k \in 1..Len(inbox) : inbox[k].decoded /\ inbox[k].message.id = msg.id

\* lines 536-544: an inbox entry of the same contact already holds this id
Duplicate(fromId, msg) ==
    \E k \in 1..Len(inbox) :
        inbox[k].from = fromId /\ inbox[k].decoded /\ inbox[k].message.id = msg.id

\* lines 552-561: every outbox entry whose id is InReplyTo is acknowledged
Acked(ob, msg) ==
    [k \in 1..Len(ob) |->
        IF msg.inReplyTo # 0 /\ ob[k].id = msg.inReplyTo
        THEN [ob[k] EXCEPT !.acked = TRUE] ELSE ob[k]]

UnsealFailed(from, why) ==
    [ok |-> FALSE, panic |-> FALSE, why |-> why, from |-> from,
     outbox |-> outbox, message |-> NoMessage]

\* client.unsealMessage(inboxMsg, from): the result, the contact and the
\* outbox afterwards, and the message; a pending contact is a panic
unsealMessage(sealed, fromId, from) ==
    LET d == decryptMessage(Tail(sealed), sealed[1].nonce, from)
        f == d.from
        mLen == d.plaintext[1]
        padded == Tail(d.plaintext)
        msg == Unmarshal(SubSeq(padded, 1, mLen))
    IN  IF from.isPending THEN [UnsealFailed(from, "pending") EXCEPT !.panic = TRUE]
        ELSE IF d.panic THEN [UnsealFailed(f, "panic") EXCEPT !.panic = TRUE]
        ELSE IF ~d.ok THEN UnsealFailed(f, "decrypt")
        ELSE IF Len(d.plaintext) < 1 THEN UnsealFailed(f, "small")
        ELSE IF mLen > Len(padded) THEN UnsealFailed(f, "length")
        ELSE IF ~UnmarshalOk(SubSeq(padded, 1, mLen)) THEN UnsealFailed(f, "parse")
        ELSE IF msg.dhLen # DHPublicLen THEN UnsealFailed(f, "dh")
        ELSE IF Duplicate(fromId, msg) THEN UnsealFailed(f, "duplicate")
        ELSE [ok |-> TRUE, panic |-> FALSE, why |-> "",
              from |-> [f EXCEPT
                  !.theirLastDHPublic =
                      IF f.theirCurrentDHPublic # msg.myNextDh
                      THEN f.theirCurrentDHPublic ELSE @,
                  !.theirCurrentDHPublic = msg.myNextDh,
                  !.supportedVersion =
                      IF msg.supportedVersion >= 0 THEN msg.supportedVersion ELSE @],
              outbox |-> Acked(outbox, msg),
              message |-> msg]

\* lines 405-442: the group signature verifies under our current group or a
\* retained one, and the tag it opens to names a contact
VerifiesAlways(f) == TRUE

Verifies(f) == f.signature.group = groupPriv \/ f.signature.group \in Range(prevGroupPrivs)

Candidates(f) ==
    {c \in Contacts : \/ Tag(contacts[c].groupKey) = f.signature.tag
                      \/ f.signature.tag \in Range(contacts[c].previousTags)}

\* client.processNewMessage for a fetched message (processFetch), and the
\* acknowledgement that releases the worker (lines 981-983)
processNewMessage ==
    /\ net.pc = "newMsg"
    /\ orch.pc = "idle"
    /\ LET f == net.newMessage
       IN  IF ~Verifies(f) \/ Candidates(f) = {}
           THEN /\ net' = BackToWait(net)
                /\ UNCHANGED <<contacts, outbox, inbox, orch>>
           ELSE \E fromId \in Candidates(f) :
                LET from == contacts[fromId]
                    u == unsealMessage(f.message, fromId, from)
                IN  IF from.revoked \/ Len(f.message) < 2
                    THEN /\ net' = BackToWait(net)
                         /\ UNCHANGED <<contacts, outbox, inbox, orch>>
                    ELSE IF from.isPending
                    THEN /\ inbox' = Append(inbox,
                                [from |-> fromId, decoded |-> FALSE, sealed |-> f.message,
                                 message |-> NoMessage, acked |-> FALSE])
                         /\ net' = BackToWait(net)
                         /\ UNCHANGED <<contacts, outbox, orch>>
                    ELSE IF u.panic
                    THEN /\ orch' = [orch EXCEPT !.pc = "panic", !.why = u.why]
                         /\ contacts' = [contacts EXCEPT ![fromId] = u.from]
                         /\ UNCHANGED <<outbox, inbox, net>>
                    ELSE /\ contacts' = [contacts EXCEPT ![fromId] = u.from]
                         /\ outbox' = u.outbox
                         /\ inbox' = IF u.ok
                                     THEN Append(inbox,
                                            [from |-> fromId, decoded |-> TRUE,
                                             sealed |-> <<>>, message |-> u.message,
                                             acked |-> FALSE])
                                     ELSE inbox
                         /\ net' = BackToWait(net)
                         /\ UNCHANGED orch
    /\ UNCHANGED <<queue, queueMutex, revocationUpdateChan, messageSentChan,
                   fetchNowChan, autoFetch>>
    /\ UNCHANGED groupVars

\* ------------------------------------------------------------ environment
\* The user asks for a fetch now: a signal on c.fetchNowChan
FetchNow ==
    /\ fetchNowChan = 0
    /\ fetchNowChan' = 1
    /\ UNCHANGED <<outbox, queue, queueMutex, revocationUpdateChan, messageSentChan,
                   net, autoFetch>>
    /\ UNCHANGED orchOnly
    /\ UNCHANGED groupVars

\* ------------------------------------------- the network specification
\* the server of the peer of contact c, as learnt in the key exchange
ServerOf(c) == 500 + c

ContactAfterKeyExchange(c) ==
    [isPending |-> FALSE, revoked |-> FALSE, revokedUs |-> FALSE,
     theirServer |-> ServerOf(c),
     generation |-> 0, myGroupKey |-> 0,
     groupKey |-> [member |-> c, ver |-> 0], previousTags |-> <<>>,
     supportedVersion |-> 1,
     lastDHPrivate |-> 10 * c, currentDHPrivate |-> 10 * c + 1,
     theirLastDHPublic |-> Pub(100 * c),
     theirCurrentDHPublic |-> Pub(100 * c)]

InitNet ==
    /\ contacts = [c \in Contacts |-> ContactAfterKeyExchange(c)]
    /\ outbox = <<>>
    /\ queue = <<>>
    /\ queueMutex = "free"
    /\ revocationUpdateChan = <<>>
    /\ messageSentChan = <<>>
    /\ fetchNowChan = 0
    /\ net = NetStart
    /\ orch = OrchIdle
    /\ autoFetch \in BOOLEAN
    /\ groupPriv = 0
    /\ generation = 0
    /\ prevGroupPrivs = <<>>
    /\ inbox = <<>>
    /\ transfer = NoTransfer
    /\ conns = <<>>
    /\ mailbox = <<>>
    /\ unsaved = FALSE

UserSends ==
    \E c \in Contacts :
        /\ Len(outbox) < MaxMsgs
        /\ ~contacts[c].revoked
        /\ send(c, OutgoingMessage(Len(outbox) + 1, contacts[c], 0, <<>>))
        /\ UNCHANGED inbox
        /\ UNCHANGED netOnly

UserRevokes ==
    \E c \in Contacts :
        /\ Len(outbox) < MaxMsgs
        /\ revoke(c)
        /\ UNCHANGED netOnly

Enqueues ==
    /\ enqueue
    /\ UNCHANGED netOnly

NextNet ==
    /\ Running
    /\ UNCHANGED <<transfer, conns, mailbox, unsaved>>
    /\ \/ NetLoopTop
       \/ NetDrain
       \/ NetSelect
       \/ resignQueuedMessages
       \/ NetChoose
       \/ NetTransaction
       \/ NetRemove
       \/ NetPostMessageSent
       \/ processNewMessage
       \/ UserSends
       \/ UserRevokes
       \/ Enqueues
       \/ processMessageSent
       \/ purgeQueue
       \/ postRevocationUpdate
       \/ FetchNow

SpecNet == InitNet /\ [][NextNet]_vars

\* ------------------------------------------- the rotation specification
\* The worker and the user without any revocation: up to MaxQueued messages
\* are written, and every send is accepted, refused or fails.
UserQueues ==
    \E c \in Contacts :
        /\ Len(outbox) < MaxQueued
        /\ send(c, OutgoingMessage(Len(outbox) + 1, contacts[c], 0, <<>>))
        /\ UNCHANGED inbox
        /\ UNCHANGED netOnly

NextRotate ==
    /\ Running
    /\ UNCHANGED <<transfer, conns, mailbox, unsaved>>
    /\ \/ NetLoopTop
       \/ NetDrain
       \/ NetSelectFetchNow
       \/ NetSelectTimer
       \/ NetChoose
       \/ NetFails
       \/ NetFetchEmpty
       \/ NetFetchMessage
       \/ NetSendAccepted
       \/ NetSendRefused
       \/ NetRemove
       \/ NetPostMessageSent
       \/ processNewMessage
       \/ UserQueues
       \/ Enqueues
       \/ processMessageSent
       \/ FetchNow

SpecRotate == InitNet /\ [][NextRotate]_vars

\* --------------------------------------- the orchestrator specification
\* The peer of a contact runs the same client.  PeerViews is the Contact
\* record the peer may hold for us, as far as its send reads it: the
\* protocol version, the DH public value of ours it encrypts to and the DH
\* private value of its own it encrypts with.  Scalars 1 and 2 are values
\* that belong to neither side's current state.
PeerViews(from) ==
    {[supportedVersion |-> v, theirCurrentDHPublic |-> p, lastDHPrivate |-> k] :
        v \in {0, 1},
        p \in {Pub(from.lastDHPrivate), Pub(from.currentDHPrivate)},
        k \in {0 - from.theirLastDHPublic, 0 - from.theirCurrentDHPublic}}
    \cup {[supportedVersion |-> v, theirCurrentDHPublic |-> Pub(1),
           lastDHPrivate |-> 0 - from.theirCurrentDHPublic] : v \in {0, 1}}
    \cup {[supportedVersion |-> v, theirCurrentDHPublic |-> Pub(from.currentDHPrivate),
           lastDHPrivate |-> 2] : v \in {0, 1}}

\* the next DH public value the peer of contact c may announce
NextPeerDH(c, from) ==
    IF 0 - from.theirCurrentDHPublic < 100 * c + MaxPeerKeys - 1
    THEN from.theirCurrentDHPublic - 1 ELSE from.theirCurrentDHPublic

Bodies == {<<>>, <<7>>, <<7, 7>>, <<7, 7, 7>>}

\* the pond.Message values the peer hands to its send
PeerMessages(c, from) ==
    LET base == [id |-> 1, inReplyTo |-> 0, dhLen |-> DHPublicLen,
                 myNextDh |-> from.theirCurrentDHPublic,
                 supportedVersion |-> 0 - 1, body |-> <<>>]
    IN  {[base EXCEPT !.id = i] : i \in 1..MaxMsgId}
        \cup {[base EXCEPT !.inReplyTo = k] : k \in 1..Len(outbox)}
        \cup {[base EXCEPT !.myNextDh = NextPeerDH(c, from)]}
        \cup {[base EXCEPT !.supportedVersion = v] : v \in {0, 1}}
        \cup {[base EXCEPT !.body = b] : b \in Bodies}
        \cup {[base EXCEPT !.dhLen = DHPublicLen - 1, !.inReplyTo = Len(outbox),
                           !.myNextDh = NextPeerDH(c, from),
                           !.supportedVersion = 1 - from.supportedVersion]}

\* the values the peer's CSPRNG yields while it seals
PeerFresh == 2000

\* what the peer's send puts on the wire
PeerSealed(c, from) ==
    {Sealed(view, Marshal(m), PeerFresh) :
        view \in PeerViews(from),
        m \in {x \in PeerMessages(c, from) : Len(Marshal(x)) <= MaxSerializedMessage}}

\* sealed bytes no send produces: an ephemeral block for our last DH value
\* in front of a box for our current one, a message cut off after the
\* ephemeral block, and plaintexts that are empty, carry a length prefix
\* beyond their end, or hold too few bytes to parse
CraftedSealed(from) ==
    LET r == PeerFresh
        k == 0 - from.theirCurrentDHPublic
        last == Pub(from.lastDHPrivate)
        current == Pub(from.currentDHPrivate)
        good == Plaintext(Marshal([NoMessage EXCEPT !.id = 1, !.dhLen = DHPublicLen,
                                      !.myNextDh = from.theirCurrentDHPublic]), r)
    IN  { << NonceSeg(r + 4), BoxSealPub(Pub(r + 3), r + 4, last, k),
             NonceSeg(r + 2), BoxSealBytes(good, r + 2, current, r + 3) >>,
          << NonceSeg(r + 4), BoxSealPub(Pub(r + 3), r + 4, current, k),
             NonceSeg(r + 2), BoxSealBytes(good, r + 2, Pub(1), r + 3) >>,
          << NonceSeg(r + 4), BoxSealPub(Pub(r + 3), r + 4, last, k) >>,
          << NonceSeg(r + 2), BoxSealBytes(<<>>, r + 2, last, k) >>,
          << NonceSeg(r + 2), BoxSealBytes(<<MaxSerializedMessage + 1, 7>>, r + 2, last, k) >>,
          << NonceSeg(r + 2), BoxSealBytes(<<1, 7>>, r + 2, current, k) >> }

\* lines 978-983: a fetch transaction returned a message of contact c; the
\* contacts 1..NWriters have a peer that writes to us
Fetches ==
    /\ net.pc \in {"top", "drain"}
    /\ orch.pc = "idle"
    /\ Len(inbox) < MaxInbox
    /\ \E c \in Contacts \cap (1..NWriters) :
         /\ contacts[c].currentDHPrivate < 10 * c + 1 + MaxRatchets
         /\ \E sealed \in PeerSealed(c, contacts[c]) \cup CraftedSealed(contacts[c]) :
              net' = [net EXCEPT !.pc = "newMsg",
                         !.newMessage = [signature |-> [group |-> groupPriv,
                                                        tag |-> Tag(contacts[c].groupKey)],
                                         message |-> sealed]]
    /\ UNCHANGED <<outbox, queue, queueMutex, revocationUpdateChan, messageSentChan,
                   fetchNowChan, autoFetch>>
    /\ UNCHANGED orchOnly
    /\ UNCHANGED groupVars

\* client.sendAck(msg): the acknowledgement goes to the sender of msg
sendAck(msg) ==
    send(msg.from, OutgoingMessage(Len(outbox) + 1, contacts[msg.from], msg.message.id, <<>>))

\* lines 1713-1717: the "ack" button of a decoded inbox message
UserAcks ==
    \E k \in 1..Len(inbox) :
        /\ Len(outbox) < MaxMsgs
        /\ inbox[k].decoded /\ ~inbox[k].acked
        /\ inbox' = [inbox EXCEPT ![k].acked = TRUE]
        /\ sendAck(inbox[k])
        /\ UNCHANGED netOnly

\* the DH state a completed key exchange may leave
ContactsAfterKeyExchange(c) ==
    {[ContactAfterKeyExchange(c) EXCEPT !.lastDHPrivate = l] :
        l \in {10 * c, 10 * c + 1}}

InitOrch ==
    /\ contacts \in {f \in [Contacts -> UNION {ContactsAfterKeyExchange(c) : c \in Contacts}] :
                        \A c \in Contacts : f[c] \in ContactsAfterKeyExchange(c)}
    /\ outbox = <<>>
    /\ queue = <<>>
    /\ queueMutex = "free"
    /\ revocationUpdateChan = <<>>
    /\ messageSentChan = <<>>
    /\ fetchNowChan = 0
    /\ net = NetStart
    /\ orch = OrchIdle
    /\ autoFetch = TRUE
    /\ groupPriv = 0
    /\ generation = 0
    /\ prevGroupPrivs = <<>>
    /\ inbox = <<>>
    /\ transfer = NoTransfer
    /\ conns = <<>>
    /\ mailbox = <<>>
    /\ unsaved = FALSE

NextOrch ==
    /\ Running
    /\ UNCHANGED <<transfer, conns, mailbox, unsaved>>
    /\ \/ Fetches
       \/ processNewMessage
       \/ UserSends
       \/ UserAcks
       \/ UserRevokes
       \/ Enqueues

SpecOrch == InitOrch /\ [][NextOrch]_vars

\* ------------------------------------------------------------------ claims
\* C1: the entry the worker removes after a send is the entry whose request
\* it transmitted, and it never removes from an empty queue.
C1_RemovesTransmittedEntry ==
    [][(net.pc = "remove" /\ net'.pc # "remove")
          => (net'.pc # "panic" /\ Range(queue) \ Range(queue') = {net.head})]_vars

\* C3: when the worker leaves the wait to start a transaction, no revocation
\* update is waiting on the channel.
C3_UpdatesDrainedBeforeTransaction ==
    [][(net.pc \in {"top", "drain", "select"} /\ net'.pc = "choose")
          => revocationUpdateChan = <<>>]_vars

\* C4: while resignQueuedMessages scans the queue the state-owning goroutine
\* is not inside a critical section of the queue mutex (enqueue or purge).
C4_ResignExcludesQueueWriters ==
    net.pc = "resign" => orch.pc \notin {"enqueue", "purge"}

\* an entry that no transaction has sent so far
NeverSent(a) ==
    /\ ~outbox[a].sent
    /\ net.head # a
    /\ \A k \in 1..Len(messageSentChan) : messageSentChan[k].id # outbox[a].id

\* C8: while the queue holds an entry that was never sent, any other entry
\* waiting in the queue keeps its turn: it leaves the queue only by the
\* revoked-us purge or after being the entry transmitted, never moves back,
\* and moves one place towards the head with every transaction, so that it
\* is attempted within len(queue) transactions.
C8_WaitingEntryGetsItsTurn ==
    [][\A i \in 1..Len(queue) :
          LET b == queue[i]
              chosen == net.pc = "choose" /\ net'.pc = "io"
          IN  (\E a \in Range(queue) \ {b} : NeverSent(a)) =>
              \/ chosen /\ i = 1
              \/ orch.pc = "purge" /\ orch'.pc = "idle"
              \/ net.pc = "remove" /\ net'.pc # "remove" /\ net.head = b
              \/ \E j \in 1..Len(queue') :
                    /\ queue'[j] = b
                    /\ j <= i
                    /\ chosen => j = i - 1]_vars

\* the queued Delivery requests addressed to a contact
QueuedDeliveriesTo(toId) ==
    {i \in Range(queue) : outbox[i].to = toId /\ ~outbox[i].revocation}

\* the processMessageSent step that takes a verified revocation which our
\* member key does not survive
RevokedUsStep ==
    /\ orch.pc = "idle" /\ messageSentChan # <<>>
    /\ messageSentChan' = Tail(messageSentChan)
    /\ LET rev == Head(messageSentChan).revocation
           to == contacts[outbox[OutboxIndex(Head(messageSentChan).id)].to]
       IN  rev.present /\ rev.sigOK /\ rev.hitsUs /\ rev.generation = to.generation

C10_UpdatePostedAndQueueResigned ==
    [][/\ (orch.pc = "postRev" /\ orch'.pc # "postRev") =>
            /\ orch.upd.key = contacts[orch.upd.id].myGroupKey
            /\ orch.upd.generation = contacts[orch.upd.id].generation
            /\ revocationUpdateChan' = Append(revocationUpdateChan, orch.upd)
       /\ (net.pc = "resign" /\ net'.pc = "drain") =>
            \A i \in QueuedDeliveriesTo(net.upd.id)' :
               /\ outbox'[i].signature = GroupSign(net.upd.key, outbox'[i].sealed)
               /\ outbox'[i].generation = net.upd.generation]_vars

\* C2: a delivery entry is never added to the outbox for a contact whose
\* revoked flag is already set.
C2_NoDeliveryAfterRevoke ==
    [][\A k \in (Len(outbox) + 1)..Len(outbox') :
          ~outbox'[k].revocation => ~contacts[outbox'[k].to].revoked]_vars

\* the step in which processFetch hands the fetched message of the worker to
\* unsealMessage, and the contact it is from
UnsealStep ==
    /\ net.pc = "newMsg"
    /\ net'.pc # "newMsg" \/ orch'.pc = "panic"
    /\ Verifies(net.newMessage)
    /\ Len(net.newMessage.message) >= 2
    /\ \E c \in Candidates(net.newMessage) : ~contacts[c].revoked /\ ~contacts[c].isPending

UnsealFrom == CHOOSE c \in Candidates(net.newMessage) : TRUE

\* a box that one of the peer's two DH values and the given private value open
OpensFor(seg, nonce, from, private) ==
    \E their \in {from.theirLastDHPublic, from.theirCurrentDHPublic} :
        BoxOpens(seg, nonce, their, private)

\* the sealed bytes need currentDHPrivate: the box, or the ephemeral block,
\* opens with it and not with lastDHPrivate, or the ephemeral block opens
\* with lastDHPrivate and the box behind it only with currentDHPrivate
UsedCurrent(sealed, from) ==
    LET nonce == sealed[1].nonce
        rest == Tail(sealed)
        needs(seg) == /\ ~OpensFor(seg, nonce, from, from.lastDHPrivate)
                      /\ OpensFor(seg, nonce, from, from.currentDHPrivate)
    IN  IF Len(rest) = 1 THEN needs(rest[1])
        ELSE /\ rest[1].t = "pubbox"
             /\ \/ needs(rest[1])
                \/ /\ OpensFor(rest[1], nonce, from, from.lastDHPrivate)
                   /\ Len(rest) >= 3
                   /\ ~BoxOpens(rest[3], rest[2].nonce, rest[1].pub, from.lastDHPrivate)
                   /\ BoxOpens(rest[3], rest[2].nonce, rest[1].pub, from.currentDHPrivate)

\* C5: an unseal ratchets exactly when the sealed bytes needed
\* currentDHPrivate; the ratchet moves the old current value to
\* lastDHPrivate and draws a new current one, so the two differ afterwards;
\* otherwise both private values are unchanged.
C5_RatchetIffCurrentUsed ==
    [][UnsealStep =>
          LET before == contacts[UnsealFrom]
              after == contacts'[UnsealFrom]
          IN  IF UsedCurrent(net.newMessage.message, before)
              THEN /\ after.lastDHPrivate = before.currentDHPrivate
                   /\ after.currentDHPrivate \notin
                         {before.lastDHPrivate, before.currentDHPrivate}
                   /\ after.lastDHPrivate # after.currentDHPrivate
              ELSE /\ after.lastDHPrivate = before.lastDHPrivate
                   /\ after.currentDHPrivate = before.currentDHPrivate]_vars

\* C5 witness: a decoded message is in the inbox and its sender's ratchet
\* has advanced.
C5_RatchetAdvanced ==
    \E c \in Contacts :
        /\ contacts[c].currentDHPrivate > 10 * c + 1
        /\ contacts[c].lastDHPrivate = contacts[c].currentDHPrivate - 1
        /\ \E k \in 1..Len(inbox) : inbox[k].from = c /\ inbox[k].decoded

\* C6: an unseal that drops the message for the length of its MyNextDh
\* leaves the contact and the outbox as they were.
C6_BadDHLengthChangesNothing ==
    [][(/\ UnsealStep
        /\ unsealMessage(net.newMessage.message, UnsealFrom, contacts[UnsealFrom]).why = "dh")
          => /\ contacts'[UnsealFrom] = contacts[UnsealFrom]
             /\ outbox' = outbox]_vars

\* the peer's view fits ours: it encrypts to one of our two DH values with a
\* DH value of its own that we hold
KeysMatch(view, from) ==
    /\ view.theirCurrentDHPublic \in {Pub(from.lastDHPrivate), Pub(from.currentDHPrivate)}
    /\ Pub(view.lastDHPrivate) \in {from.theirLastDHPublic, from.theirCurrentDHPublic}

\* C7: what send seals for us under a fitting view, for either protocol
\* version and any message that send accepts, is unsealed to that message.
C7_SealUnsealRoundTrip ==
    [][UnsealStep =>
          \A view \in PeerViews(contacts[UnsealFrom]) :
          \A m \in PeerMessages(UnsealFrom, contacts[UnsealFrom]) :
             (/\ Len(Marshal(m)) <= MaxSerializedMessage
              /\ net.newMessage.message = Sealed(view, Marshal(m), PeerFresh)
              /\ KeysMatch(view, contacts[UnsealFrom])
              /\ m.dhLen = DHPublicLen
              /\ ~Duplicate(UnsealFrom, m))
                => inbox' = Append(inbox, [from |-> UnsealFrom, decoded |-> TRUE,
                                           sealed |-> <<>>, message |-> m,
                                           acked |-> FALSE])]_vars

\* C7 witness: a message of the largest size send accepts has been unsealed.
C7_LargestMessageUnsealed ==
    \E k \in 1..Len(inbox) :
        /\ inbox[k].decoded
        /\ Len(Marshal(inbox[k].message)) = MaxSerializedMessage

\* ------------------------------------------ the account specification
\* doCreateAccount (line 810) draws the first generation at random from the
\* whole range of the counter; the user then writes messages and revokes
\* contacts.
InitAccount ==
    /\ contacts = [c \in Contacts |-> ContactAfterKeyExchange(c)]
    /\ outbox = <<>>
    /\ queue = <<>>
    /\ queueMutex = "free"
    /\ revocationUpdateChan = <<>>
    /\ messageSentChan = <<>>
    /\ fetchNowChan = 0
    /\ net = NetStart
    /\ orch = OrchIdle
    /\ autoFetch \in BOOLEAN
    /\ groupPriv = 0
    /\ generation \in 0..(2 ^ GenerationBits - 1)
    /\ prevGroupPrivs = <<>>
    /\ inbox = <<>>
    /\ transfer = NoTransfer
    /\ conns = <<>>
    /\ mailbox = <<>>
    /\ unsaved = FALSE

NextAccount ==
    /\ Running
    /\ UNCHANGED <<transfer, conns, mailbox, unsaved>>
    /\ \/ UserSends
       \/ UserRevokes
       \/ Enqueues

SpecAccount == InitAccount /\ [][NextAccount]_vars

\* the step in which client.revoke runs up to its call of enqueue
RevokeStep == prevGroupPrivs' # prevGroupPrivs

\* C11: every local revocation leaves our generation strictly greater than
\* it was before the call, whatever value the counter started from.
C11_GenerationStrictlyIncreases ==
    [][RevokeStep => generation' > generation]_vars

\* what unsealMessage returns in an UnsealStep
Unsealed == unsealMessage(net.newMessage.message, UnsealFrom, contacts[UnsealFrom])

\* C12: an outbox entry becomes acked exactly in a successful unseal of a
\* message that comes from the contact the entry was sent to and carries the
\* entry's id as in_reply_to.
C12_AckOnlyFromAddressee ==
    [][\A k \in 1..Len(outbox) :
          (outbox'[k].acked /\ ~outbox[k].acked) <=>
             /\ ~outbox[k].acked
             /\ UnsealStep
             /\ Unsealed.ok
             /\ Unsealed.message.inReplyTo = outbox[k].id
             /\ outbox[k].to = UnsealFrom]_vars

\* ------------------------------------------- the transfer specification
clientVars == <<contacts, outbox, queue, queueMutex, revocationUpdateChan,
                messageSentChan, fetchNowChan, net, orch, autoFetch,
                groupPriv, generation, prevGroupPrivs, inbox, conns, mailbox,
                unsaved>>

\* lines 1181-1202: dial; a failed dial goes to the backoff wait.
\* dialServer (lines 739-776) fails either in tor.Dial, with no connection,
\* or in conn.Handshake, and then returns without closing rawConn.
XferDial ==
    /\ transfer.pc = "connect"
    /\ \/ transfer' = [transfer EXCEPT !.pc = "request", !.conn = "open",
                                       !.openConns = @ + 1,
                                       !.backoff = InitialBackoff]
       \/ transfer' = [transfer EXCEPT !.pc = "backoff"]
       \/ /\ transfer.openConns < MaxLeaked
          /\ transfer' = [transfer EXCEPT !.pc = "backoff", !.openConns = @ + 1]
    /\ UNCHANGED clientVars

\* the wait without the cap of lines 1197-1199
XferBackoffUncapped ==
    /\ transfer.pc = "backoff"
    /\ IF transfer.kill
       THEN transfer' = Returned(transfer, "canceled", "")
       ELSE transfer' = [transfer EXCEPT !.pc = "connect", !.backoff = 2 * @]
    /\ UNCHANGED clientVars

\* lines 1189-1199: the wait; a cancel signal raised before the timer
\* fires is the only ready case
XferBackoff ==
    /\ transfer.pc = "backoff"
    /\ IF transfer.kill
       THEN transfer' = Returned(transfer, "canceled", "")
       ELSE transfer' = [transfer EXCEPT
                            !.pc = "connect",
                            !.backoff = IF 2 * @ > MaxBackoff THEN MaxBackoff ELSE 2 * @]
    /\ UNCHANGED clientVars

\* lines 1204-1209: conn.WriteProto(transfer.Request())
XferRequest ==
    /\ transfer.pc = "request"
    /\ \/ transfer' = [transfer EXCEPT !.pc = "reply"]
       \/ transfer' = [Closed(transfer) EXCEPT !.pc = "connect"]
    /\ UNCHANGED clientVars

\* lines 1030-1050: uploadTransfer.ProcessReply for Upload{resume: offset}
uploadProcessReply(t, offset) ==
    IF offset = t.size
    THEN Returned(Closed(t), "ok", "")
    ELSE [t EXCEPT !.pc = "stream", !.filePos = offset, !.total = t.size - offset]

\* lines 1093-1108: downloadTransfer.ProcessReply; size < 0 stands for a
\* reply without a download section
downloadProcessReply(t, size) ==
    IF size < 0 THEN Returned(Closed(t), "error", "nodownload")
    ELSE IF size < t.resume THEN Returned(Closed(t), "error", "truncated")
    ELSE [t EXCEPT !.pc = "stream", !.total = size - t.resume, !.srvPos = t.resume]

\* lines 1211-1239: the reply.  The server answers an upload with the
\* number of chunks it holds and a download with the size of its file.
XferReply ==
    /\ transfer.pc = "reply"
    /\ \/ transfer' = [Closed(transfer) EXCEPT !.pc = "connect"]
       \/ transfer' = Returned(Closed(transfer), "ok", "")
       \/ transfer' = Returned(Closed(transfer), "error", "status")
       \/ /\ transfer.isUpload
          /\ transfer' = uploadProcessReply(transfer, Len(transfer.serverGot))
       \/ /\ ~transfer.isUpload
          /\ \E size \in {0 - 1, transfer.resume - 1, ServerSize} :
                transfer' = downloadProcessReply(transfer, size)
    /\ UNCHANGED clientVars

\* the accounting without the check against total
AccountedUnchecked(t) == [t EXCEPT !.transferred = @ + 1]

\* lines 1292-1298: the accounting after a chunk was written
Accounted(t) ==
    IF t.transferred + 1 > t.total
    THEN Returned(Closed([t EXCEPT !.transferred = @ + 1]), "error", "overrun")
    ELSE [t EXCEPT !.transferred = @ + 1]

\* lines 1254-1306: one iteration of the copy loop of an upload
uploadChunk(t) ==
    IF t.filePos = t.size THEN {[t EXCEPT !.pc = "finish"]}
    ELSE LET read == [t EXCEPT !.filePos = @ + 1]
         IN  {Returned(Closed(t), "error", "read"), Closed(read)}
             \cup IF t.conn = "open"
                  THEN {Accounted([read EXCEPT !.serverGot = Append(@, t.filePos)])}
                  ELSE {}

\* lines 1254-1306: one iteration of the copy loop of a download
downloadChunk(t) ==
    IF t.conn # "open" THEN {t}
    ELSE {Closed(t), [t EXCEPT !.pc = "finish"]}
         \cup IF t.srvPos < ServerSize
              THEN {Returned(Closed(t), "error", "write"),
                    Accounted([t EXCEPT !.srvPos = @ + 1,
                                        !.file = Append(@, t.srvPos)])}
              ELSE {}

XferChunk ==
    /\ transfer.pc = "stream"
    /\ IF transfer.kill
       THEN transfer' = Returned(Closed(transfer), "canceled", "")
       ELSE transfer' \in IF transfer.isUpload THEN uploadChunk(transfer)
                                               ELSE downloadChunk(transfer)
    /\ UNCHANGED clientVars

\* lines 1308-1317 with Complete (lines 1052-1057 and 1110-1112): the server
\* of an upload sends a zero byte if it got everything
XferFinish ==
    /\ transfer.pc = "finish"
    /\ IF transfer.transferred < transfer.total
       THEN transfer' = [Closed(transfer) EXCEPT !.pc = "connect"]
       ELSE \/ /\ ~transfer.isUpload \/ transfer.conn = "open"
               /\ transfer' = Returned(Closed(transfer), "ok", "")
            \/ /\ transfer.isUpload
               /\ transfer' = [Closed(transfer) EXCEPT !.pc = "connect"]
    /\ UNCHANGED clientVars

\* the owner of the transfer raises the cancel signal (killChan)
XferCancel ==
    /\ transfer.pc \notin {"idle", "done"}
    /\ ~transfer.kill
    /\ transfer' = [transfer EXCEPT !.kill = TRUE]
    /\ UNCHANGED clientVars

InitTransfer ==
    /\ contacts = [c \in Contacts |-> ContactAfterKeyExchange(c)]
    /\ outbox = <<>>
    /\ queue = <<>>
    /\ queueMutex = "free"
    /\ revocationUpdateChan = <<>>
    /\ messageSentChan = <<>>
    /\ fetchNowChan = 0
    /\ net = NetStart
    /\ orch = OrchIdle
    /\ autoFetch = TRUE
    /\ groupPriv = 0
    /\ generation = 0
    /\ prevGroupPrivs = <<>>
    /\ inbox = <<>>
    /\ conns = <<>>
    /\ mailbox = <<>>
    /\ unsaved = FALSE
    /\ transfer \in {uploadDetachment(n) : n \in 0..MaxFile}
                    \cup {downloadDetachment(n) : n \in 0..MaxFile}

transferDetachment ==
    \/ XferDial
    \/ XferBackoff
    \/ XferRequest
    \/ XferReply
    \/ XferChunk
    \/ XferFinish

NextTransfer ==
    \/ transferDetachment
    \/ XferCancel

SpecTransfer == InitTransfer /\ [][NextTransfer]_vars

\* the goroutine of the transfer keeps running
SpecTransferFair == SpecTransfer /\ WF_vars(transferDetachment)

\* C13: when the server answers an upload with Upload{resume: k}, k being the
\* chunks it got in earlier attempts, the client seeks to k and is left with
\* size - k chunks to stream; streaming them never ends the transfer with
\* the "transferred more than the expected amount" error, and once the last
\* chunk is written the copy loop ends with the whole of total accounted.
C13_UploadResumes ==
    [][transfer.isUpload =>
          /\ (transfer.pc = "reply" /\ transfer'.pc = "stream") =>
                /\ transfer'.filePos = Len(transfer.serverGot)
                /\ transfer'.total = transfer.size - Len(transfer.serverGot)
          /\ transfer.pc = "stream" => transfer'.err # "overrun"
          /\ (transfer.pc = "stream" /\ transfer'.pc = "finish"
                 /\ Len(transfer.serverGot) = transfer.size) =>
                transfer.transferred >= transfer.total]_vars

\* C14: a transfer that returns has closed every connection it opened, and
\* once the cancel signal is raised the transfer returns.
C14_CancelReturnsAndCloses ==
    /\ [](transfer.pc = "done" => transfer.openConns = 0)
    /\ (transfer.kill ~> transfer.pc = "done")

\* C15: the worker posts its events in the order of the replies, so a
\* message-sent event still waiting in messageSentChan is older than the new
\* message the worker is holding out on newMessageChan; the orchestrator
\* handles the new message only when no message-sent event is waiting.
C15_EventsHandledInWireOrder ==
    [][(net.pc = "newMsg" /\ net'.pc # "newMsg") => messageSentChan = <<>>]_vars

\* ------------------------------------------ the key exchange specification
\* Contact 1 is pending: newKeyExchange has drawn its keys and put it into
\* c.contacts (lines 2149-2153), the peer's key exchange message has not
\* been processed.  The peer has ours and may write already.
PendingContact(c) ==
    [ContactAfterKeyExchange(c) EXCEPT !.isPending = TRUE,
                                       !.theirServer = 0,
                                       !.lastDHPrivate = 10 * c + 1,
                                       !.theirLastDHPublic = 0,
                                       !.theirCurrentDHPublic = 0]

\* contact.processKeyExchange: the peer's values are stored
processKeyExchange(contact, c) ==
    [contact EXCEPT !.theirServer = ServerOf(c),
                    !.theirLastDHPublic = Pub(100 * c),
                    !.theirCurrentDHPublic = Pub(100 * c)]

\* lines 978-983: a fetch returned a message of the peer of a pending contact
FetchesFromPending ==
    /\ net.pc \in {"top", "drain"}
    /\ orch.pc = "idle"
    /\ Len(inbox) < MaxInbox
    /\ \E c \in Contacts :
         /\ contacts[c].isPending
         /\ \E sealed \in PeerSealed(c, processKeyExchange(contacts[c], c)) :
              net' = [net EXCEPT !.pc = "newMsg",
                         !.newMessage = [signature |-> [group |-> groupPriv,
                                                        tag |-> Tag(contacts[c].groupKey)],
                                         message |-> sealed]]
    /\ UNCHANGED <<outbox, queue, queueMutex, revocationUpdateChan, messageSentChan,
                   fetchNowChan, autoFetch>>
    /\ UNCHANGED orchOnly
    /\ UNCHANGED groupVars

\* newContactManual without the assignment of line 2263
newContactManualStaysPending ==
    /\ orch.pc = "idle"
    /\ \E c \in Contacts :
         /\ contacts[c].isPending
         /\ contacts' = [contacts EXCEPT ![c] = processKeyExchange(@, c)]
         /\ orch' = [OrchIdle EXCEPT !.pc = "unsealPending", !.to = c, !.k = 1]
    /\ UNCHANGED <<outbox, queue, queueMutex, inbox>>
    /\ UNCHANGED netOnly
    /\ UNCHANGED groupVars

\* lines 2231-2263: the "process" click with a key exchange message that
\* processKeyExchange accepts; isPending is cleared before the loop over
\* the inbox starts
newContactManual ==
    /\ orch.pc = "idle"
    /\ \E c \in Contacts :
         /\ contacts[c].isPending
         /\ contacts' = [contacts EXCEPT
                            ![c] = [processKeyExchange(@, c) EXCEPT !.isPending = FALSE]]
         /\ orch' = [OrchIdle EXCEPT !.pc = "unsealPending", !.to = c, !.k = 1]
    /\ UNCHANGED <<outbox, queue, queueMutex, inbox>>
    /\ UNCHANGED netOnly
    /\ UNCHANGED groupVars

\* lines 2265-2279: one iteration of the loop over c.inbox; a message that
\* fails to unseal stays in c.inbox as it was
unsealPending ==
    /\ orch.pc = "unsealPending"
    /\ IF orch.k > Len(inbox)
       THEN /\ orch' = OrchIdle
            /\ UNCHANGED <<contacts, outbox, inbox>>
       ELSE LET msg == inbox[orch.k]
                u == unsealMessage(msg.sealed, orch.to, contacts[orch.to])
            IN  IF msg.decoded \/ msg.from # orch.to
                THEN /\ orch' = [orch EXCEPT !.k = @ + 1]
                     /\ UNCHANGED <<contacts, outbox, inbox>>
                ELSE IF u.panic
                THEN /\ orch' = [orch EXCEPT !.pc = "panic", !.why = u.why]
                     /\ contacts' = [contacts EXCEPT ![orch.to] = u.from]
                     /\ UNCHANGED <<outbox, inbox>>
                ELSE /\ orch' = [orch EXCEPT !.k = @ + 1]
                     /\ contacts' = [contacts EXCEPT ![orch.to] = u.from]
                     /\ outbox' = u.outbox
                     /\ inbox' = IF u.ok
                                 THEN [inbox EXCEPT ![orch.k].decoded = TRUE,
                                                    ![orch.k].sealed = <<>>,
                                                    ![orch.k].message = u.message]
                                 ELSE inbox
    /\ UNCHANGED <<queue, queueMutex>>
    /\ UNCHANGED netOnly
    /\ UNCHANGED groupVars

InitPending ==
    /\ contacts = [c \in Contacts |-> IF c = 1 THEN PendingContact(c)
                                                ELSE ContactAfterKeyExchange(c)]
    /\ outbox = <<>>
    /\ queue = <<>>
    /\ queueMutex = "free"
    /\ revocationUpdateChan = <<>>
    /\ messageSentChan = <<>>
    /\ fetchNowChan = 0
    /\ net = NetStart
    /\ orch = OrchIdle
    /\ autoFetch = TRUE
    /\ groupPriv = 0
    /\ generation = 0
    /\ prevGroupPrivs = <<>>
    /\ inbox = <<>>
    /\ transfer = NoTransfer
    /\ conns = <<>>
    /\ mailbox = <<>>
    /\ unsaved = FALSE

NextPending ==
    /\ Running
    /\ UNCHANGED <<transfer, conns, mailbox, unsaved>>
    /\ \/ Fetches
       \/ FetchesFromPending
       \/ processNewMessage
       \/ newContactManual
       \/ unsealPending
       \/ UserRevokes
       \/ Enqueues

SpecPending == InitPending /\ [][NextPending]_vars

\* the step in which processFetch stores or unseals a fetched message that
\* passed its checks, for a sender that is pending
PendingFetchStep ==
    /\ net.pc = "newMsg"
    /\ net'.pc # "newMsg" \/ orch'.pc = "panic"
    /\ Verifies(net.newMessage)
    /\ Len(net.newMessage.message) >= 2
    /\ \E c \in Candidates(net.newMessage) : ~contacts[c].revoked /\ contacts[c].isPending

\* C16: unsealMessage is never called for a pending contact.  The panic of
\* line 496 is never hit; a message fetched from a pending contact is
\* appended to the inbox sealed and nothing else changes; an inbox entry is
\* decoded only when its contact is no longer pending.
C16_NoUnsealOnPending ==
    [][/\ orch'.pc = "panic" => orch'.why # "pending"
       /\ PendingFetchStep =>
             /\ contacts' = contacts
             /\ outbox' = outbox
             /\ inbox' = Append(inbox, [from |-> UnsealFrom, decoded |-> FALSE,
                                         sealed |-> net.newMessage.message,
                                         message |-> NoMessage, acked |-> FALSE])
       /\ \A k \in 1..Len(inbox) :
             (~inbox[k].decoded /\ inbox'[k].decoded) =>
                 ~contacts'[inbox[k].from].isPending]_vars

\* C16 witness: the key exchange has completed and the loop over the inbox
\* is about to unseal a message that was stored sealed.
C16_StoredMessageUnsealed ==
    /\ orch.pc = "unsealPending"
    /\ orch.k <= Len(inbox)
    /\ ~inbox[orch.k].decoded
    /\ inbox[orch.k].from = orch.to

\* ------------------------------------------------ the queue specification
\* The rotation specification with one more reply: GENERATION_REVOKED with
\* the revocation by which the recipient has revoked us, at the generation
\* we hold for it.  Up to MaxQueued entries are queued, removed and purged.
NetSendRevokedUs ==
    /\ net.pc = "io" /\ ~net.isFetch
    /\ net' = [net EXCEPT
                  !.pc = "postRevoked",
                  !.reply = [present |-> TRUE, sigLen |-> SignatureSize, sigOK |-> TRUE,
                             parses |-> TRUE, hitsUs |-> TRUE,
                             generation |-> contacts[outbox[net.head].to].generation]]
    /\ NetIdle

NextQueue ==
    /\ Running
    /\ UNCHANGED <<transfer, conns, mailbox, unsaved>>
    /\ \/ NetLoopTop
       \/ NetDrain
       \/ NetSelectFetchNow
       \/ NetSelectTimer
       \/ NetChoose
       \/ NetFails
       \/ NetFetchEmpty
       \/ NetSendAccepted
       \/ NetSendRevokedUs
       \/ NetSendRefused
       \/ NetRemove
       \/ NetPostMessageSent
       \/ UserQueues
       \/ Enqueues
       \/ processMessageSent
       \/ purgeQueue
       \/ FetchNow

SpecQueue == InitNet /\ [][NextQueue]_vars

\* x stands before y in q
Before(q, x, y) == \E i, j \in 1..Len(q) : i < j /\ q[i] = x /\ q[j] = y

\* C17: no two entries of the queue have the same id; enqueue appends at the
\* tail; two entries that stay in the queue change their relative order
\* only when the worker rotates the head to the tail, and then one of them
\* is the head.
C17_QueueOrder ==
    [][/\ \A i, j \in 1..Len(queue') :
             i # j => outbox'[queue'[i]].id # outbox'[queue'[j]].id
       /\ (orch.pc = "enqueue" /\ orch'.pc # "enqueue") =>
             queue' = Append(queue, Len(outbox'))
       /\ \A x, y \in Range(queue) \cap Range(queue') :
             (Before(queue, x, y) /\ ~Before(queue', x, y)) =>
                 /\ net.pc = "choose" /\ net'.pc = "io"
                 /\ x = Head(queue)
                 /\ queue' = Append(Tail(queue), x)]_vars

\* C17 witness: a purge is about to run on a queue that holds an entry of
\* the contact that revoked us in front of two entries for another contact.
C17_PurgeKeepsTwo ==
    /\ orch.pc = "purge"
    /\ Len(queue) = 3
    /\ outbox[queue[1]].to = orch.to
    /\ outbox[queue[2]].to # orch.to
    /\ outbox[queue[3]].to # orch.to

\* --------------------------------------------- the identity specification
\* c.identity, our long-term private value
Identity == 5

\* dialServer with a fixed random identity instead of a drawn one
dialServerDrawsOnce(useRandomIdentity, r) ==
    IF useRandomIdentity THEN Pub(3000) ELSE Pub(Identity)

\* lines 739-750: the public identity dialServer hands to the transport; r
\* is the value c.randBytes yields
dialServer(useRandomIdentity, r) ==
    IF useRandomIdentity THEN Pub(r) ELSE Pub(Identity)

\* the step in which transact calls dialServer (line 963) and goes on with
\* the transaction
DialStep == net.pc = "io" /\ net'.pc # "io"

\* line 963: every call of dialServer is written down with the identity it
\* used and the request it was made for; at most MaxDials calls are made
Connects ==
    IF DialStep
    THEN /\ Len(conns) < MaxDials
         /\ conns' = Append(conns,
               [identity |-> dialServer(net.useAnonymousIdentity, 3000 + Len(conns)),
                kind |-> IF net.isFetch THEN "fetch"
                         ELSE IF outbox[net.head].revocation THEN "revocation"
                         ELSE "deliver"])
    ELSE UNCHANGED conns

NextIdentity ==
    /\ Running
    /\ UNCHANGED <<transfer, mailbox, unsaved>>
    /\ \/ NetLoopTop
       \/ NetDrain
       \/ NetSelectFetchNow
       \/ NetSelectTimer
       \/ NetChoose
       \/ NetFails
       \/ NetFetchEmpty
       \/ NetSendAccepted
       \/ NetSendRefused
       \/ NetRemove
       \/ NetPostMessageSent
       \/ UserSends
       \/ UserRevokes
       \/ Enqueues
       \/ processMessageSent
       \/ FetchNow
    /\ Connects

SpecIdentity == InitNet /\ [][NextIdentity]_vars

\* C18: a fetch is chosen exactly when the queue is empty; a fetch and a
\* revocation are dialled under our real identity; a delivery is dialled
\* under an identity that is not the real one and that no earlier
\* connection has used.
C18_IdentityPerTransaction ==
    [][/\ (net.pc = "choose" /\ net'.pc = "io") => (net'.isFetch <=> queue = <<>>)
       /\ DialStep =>
             LET conn == Last(conns')
                 delivery == ~net.isFetch /\ ~outbox[net.head].revocation
             IN  IF delivery
                 THEN /\ conn.identity # Pub(Identity)
                      /\ \A k \in 1..Len(conns) : conns[k].identity # conn.identity
                 ELSE conn.identity = Pub(Identity)]_vars

\* C18 witness: a fetch, a revocation and two deliveries have been dialled.
C18_AllKindsDialled ==
    /\ \E k \in 1..Len(conns) : conns[k].kind = "fetch"
    /\ \E k \in 1..Len(conns) : conns[k].kind = "revocation"
    /\ \E j, k \in 1..Len(conns) :
          j # k /\ conns[j].kind = "deliver" /\ conns[k].kind = "deliver"

\* ------------------------------------------------- the send specification
\* lines 166-169 and 181: the sizes in bytes
nonceLen == 24

boxOverhead == 16

lengthPrefixLen == 4

ephemeralBlockLen == nonceLen + DHPublicLen + boxOverhead

\* the bytes a segment of a sealed message takes; the plaintext of a box
\* starts with the length prefix, one element of the model's sequence
SegmentLen(seg) ==
    IF seg.t = "nonce" THEN nonceLen
    ELSE IF seg.t = "pubbox" THEN DHPublicLen + boxOverhead
    ELSE lengthPrefixLen + (Len(seg.bytes) - 1) + boxOverhead

\* len(sealed)
RECURSIVE SealedLen(_)
SealedLen(sealed) ==
    IF sealed = <<>> THEN 0 ELSE SegmentLen(Head(sealed)) + SealedLen(Tail(sealed))

\* The user writes messages with bodies of every size up to one byte more
\* than fits, to contacts of either protocol version.
UserComposes ==
    \E c \in Contacts, body \in Bodies :
        /\ Len(outbox) < MaxMsgs
        /\ ~contacts[c].revoked
        /\ send(c, OutgoingMessage(Len(outbox) + 1, contacts[c], 0, body))
        /\ UNCHANGED inbox
        /\ UNCHANGED netOnly

InitSend ==
    /\ contacts \in [Contacts -> UNION {{[ContactAfterKeyExchange(c) EXCEPT
                                              !.supportedVersion = v] : v \in {0, 1}}
                                        : c \in Contacts}]
    /\ \A c \in Contacts : contacts[c].groupKey.member = c
    /\ outbox = <<>>
    /\ queue = <<>>
    /\ queueMutex = "free"
    /\ revocationUpdateChan = <<>>
    /\ messageSentChan = <<>>
    /\ fetchNowChan = 0
    /\ net = NetStart
    /\ orch = OrchIdle
    /\ autoFetch = TRUE
    /\ groupPriv = 0
    /\ generation = 0
    /\ prevGroupPrivs = <<>>
    /\ inbox = <<>>
    /\ transfer = NoTransfer
    /\ conns = <<>>
    /\ mailbox = <<>>
    /\ unsaved = FALSE

NextSend ==
    /\ Running
    /\ UNCHANGED <<transfer, conns, mailbox, unsaved>>
    /\ \/ UserComposes
       \/ Enqueues

SpecSend == InitSend /\ [][NextSend]_vars

\* the step in which send has sealed a message and calls enqueue
SendStep ==
    /\ orch.pc = "idle"
    /\ orch'.pc = "enqueue"
    /\ ~orch'.pending[1].revocation

\* C19: the length of the sealed bytes depends on the recipient's protocol
\* version only, whatever the length of the message; no message longer
\* than MaxSerializedMessage is sealed and handed to enqueue.
C19_SealedLength ==
    [][/\ SendStep =>
             SealedLen(orch'.pending[1].sealed) =
                IF contacts[orch'.pending[1].to].supportedVersion >= 1
                THEN 24 + 32 + 16 + 24 + 4 + MaxSerializedMessage + 16
                ELSE 24 + 4 + MaxSerializedMessage + 16
       /\ \A c \in Contacts, body \in Bodies :
             LET message == OutgoingMessage(Len(outbox) + 1, contacts[c], 0, body)
             IN  Len(Marshal(message)) > MaxSerializedMessage =>
                   ~(SendStep /\ orch'.pending[1] =
                        DeliveryEntry(c, contacts[c], message, FreshFor(Len(outbox) + 1)))
       /\ Len(outbox') > Len(outbox) =>
             /\ Len(outbox') = Len(outbox) + 1
             /\ Last(outbox') = orch.pending[1]]_vars

\* C19 witness: the shortest and the longest message are queued, one for a
\* contact of version 0 and one for a contact of version 1.
C19_ShortAndLongQueued ==
    \E i, j \in 1..Len(outbox) :
        /\ Len(outbox[i].sealed) = 2
        /\ Len(outbox[j].sealed) = 4
        /\ outbox[i].sealed[2].bytes[1] = HeaderFields
        /\ outbox[j].sealed[4].bytes[1] = MaxSerializedMessage

\* ------------------------------------------------- the reply specification
\* The queue specification with the reply of a send kept in the worker's
\* state between conn.ReadProto and the branch on reply.Status.  The
\* Status field of a pond.Reply is optional: it is absent, or it is set to
\* OK, to GENERATION_REVOKED or to another value.
ReplyStatuses == {"absent", "OK", "GENERATION_REVOKED", "OTHER"}

\* the revocation by which the recipient of the head has revoked us
RevokedUsPayload ==
    [present |-> TRUE, sigLen |-> SignatureSize, sigOK |-> TRUE,
     parses |-> TRUE, hitsUs |-> TRUE,
     generation |-> contacts[outbox[net.head].to].generation]

Replies == [status : ReplyStatuses, revocation : {NoRevocation, RevokedUsPayload}]

\* lines 963-977: dial, write and read succeed for a send
NetReadReply ==
    /\ net.pc = "io" /\ ~net.isFetch
    /\ \E reply \in Replies : net' = [net EXCEPT !.pc = "reply", !.reply = reply]
    /\ NetIdle

\* lines 979-996 for a send: the branch on reply.Status
NetDispatchReply ==
    /\ net.pc = "reply"
    /\ net' = IF net.reply.status = "absent"
              THEN [net EXCEPT !.pc = "remove", !.reply = NoRevocation]
              ELSE IF net.reply.status = "GENERATION_REVOKED"
                      /\ net.reply.revocation.present
              THEN [net EXCEPT !.pc = "postRevoked", !.reply = net.reply.revocation]
              ELSE BackToWait(net)
    /\ NetIdle

NextReply ==
    /\ Running
    /\ UNCHANGED <<transfer, conns, mailbox, unsaved>>
    /\ \/ NetLoopTop
       \/ NetDrain
       \/ NetSelectFetchNow
       \/ NetSelectTimer
       \/ NetChoose
       \/ NetFails
       \/ NetFetchEmpty
       \/ NetReadReply
       \/ NetDispatchReply
       \/ NetRemove
       \/ NetPostMessageSent
       \/ UserQueues
       \/ Enqueues
       \/ processMessageSent
       \/ purgeQueue
       \/ FetchNow

SpecReply == InitNet /\ [][NextReply]_vars

\* C20: the branch on the reply of a send.  A reply whose status is absent
\* or OK makes the worker remove the sent entry and post one message_sent
\* with its id and no revocation; GENERATION_REVOKED with a revocation makes
\* it post one message_sent with the id and the revocation and leave the
\* queue alone; any other reply and any dial, write or read error posts
\* nothing and leaves the queue alone.  Nothing else posts a message_sent.
C20_ReplyDispatch ==
    [][/\ (net.pc = "reply" /\ net'.pc # "reply") =>
             /\ queue' = queue
             /\ messageSentChan' = messageSentChan
             /\ net'.pc = IF net.reply.status \in {"absent", "OK"} THEN "remove"
                          ELSE IF net.reply.status = "GENERATION_REVOKED"
                                  /\ net.reply.revocation.present
                          THEN "postRevoked"
                          ELSE "drain"
             /\ net'.pc = "remove" => net'.head = net.head
             /\ net'.pc = "postRevoked" =>
                    net'.head = net.head /\ net'.reply = net.reply.revocation
       /\ (net.pc = "io" /\ net'.pc = "drain") =>
             queue' = queue /\ messageSentChan' = messageSentChan
       /\ (net.pc = "remove" /\ net'.pc # "remove") =>
             /\ net'.pc = "postSent"
             /\ net'.head = net.head
             /\ queue' = SelectSeq(queue, LAMBDA x : x # net.head)
       /\ (net.pc \in {"postSent", "postRevoked"} /\ net'.pc # net.pc) =>
             /\ net'.pc = "drain"
             /\ queue' = queue
             /\ messageSentChan' = Append(messageSentChan,
                    [id |-> outbox[net.head].id,
                     revocation |-> IF net.pc = "postRevoked" THEN net.reply
                                    ELSE NoRevocation])
       /\ Len(messageSentChan') > Len(messageSentChan) =>
             net.pc \in {"postSent", "postRevoked"}]_vars

\* ----------------------------------------------- the channel specification
\* The worker and the orchestrator with the three channels between them in
\* use: sends are accepted, fail, or are answered GENERATION_REVOKED with a
\* revocation of another member of the recipient's group, which makes the
\* orchestrator post a revocation update; fetches return messages.
NetSendPeerRevoked ==
    /\ net.pc = "io" /\ ~net.isFetch
    /\ \E r \in {p \in RevocationPayloads : p.sigOK /\ ~p.hitsUs} :
          net' = [net EXCEPT !.pc = "postRevoked", !.reply = r]
    /\ NetIdle

\* the steps of the transact goroutine
WorkerSteps ==
    \/ NetLoopTop
    \/ NetDrain
    \/ NetSelect
    \/ resignQueuedMessages
    \/ NetChoose
    \/ NetFails
    \/ NetFetchEmpty
    \/ NetFetchMessage
    \/ NetSendAccepted
    \/ NetSendPeerRevoked
    \/ NetRemove
    \/ NetPostMessageSent

\* the steps of the state-owning goroutine that do not wait for the user
HandlerSteps ==
    \/ processNewMessage
    \/ processMessageSent
    \/ postRevocationUpdate
    \/ Enqueues

NextChannels ==
    /\ Running
    /\ UNCHANGED <<transfer, conns, mailbox, unsaved>>
    /\ \/ WorkerSteps
       \/ HandlerSteps
       \/ UserSends
       \/ FetchNow

SpecChannels == InitNet /\ [][NextChannels]_vars

\* Both goroutines are scheduled: a step of either that stays possible is
\* taken.  The orchestrator's select picks among its ready channels at
\* random, so a channel that is ready again and again is picked.
SpecChannelsFair ==
    /\ SpecChannels
    /\ WF_vars(Running /\ UNCHANGED <<transfer, conns, mailbox, unsaved>> /\ WorkerSteps)
    /\ WF_vars(Running /\ UNCHANGED <<transfer, conns, mailbox, unsaved>> /\ HandlerSteps)
    /\ SF_vars(Running /\ UNCHANGED <<transfer, conns, mailbox, unsaved>> /\ processMessageSent)
    /\ SF_vars(Running /\ UNCHANGED <<transfer, conns, mailbox, unsaved>> /\ processNewMessage)

\* the orchestrator cannot complete its send on revocationUpdateChan
OrchBlocked ==
    orch.pc = "postRev" /\ Len(revocationUpdateChan) >= RevocationUpdateChanCap

\* the worker cannot complete its send on messageSentChan, or has offered a
\* message on newMessageChan and waits for the acknowledgement
WorkerBlocked ==
    \/ net.pc \in {"postSent", "postRevoked"} /\ Len(messageSentChan) >= MessageSentChanCap
    \/ net.pc = "newMsg"

\* the orchestrator takes the oldest event of messageSentChan
TakesMessageSent ==
    messageSentChan # <<>> /\ messageSentChan' = Tail(messageSentChan)

\* the worker takes the oldest update of revocationUpdateChan
TakesUpdate ==
    revocationUpdateChan # <<>> /\ revocationUpdateChan' = Tail(revocationUpdateChan)

C22_AtMostOnceAndNoLoss ==
    [][/\ (net.pc = "choose" /\ net'.pc = "io" /\ ~net'.isFetch) =>
             ~outbox[net'.head].sent
       /\ \A x \in Range(queue) \ Range(queue') :
             \/ net.pc = "remove" /\ x = net.head
             \/ orch.pc = "purge" /\ outbox[x].to = orch.to]_vars

\* C23: the signed revocation that revoke builds carries the generation our
\* group has after the increment of that revoke.
C23_RevocationCarriesNewGeneration ==
    [][RevokeStep => /\ orch'.pending[1].revocation
                     /\ orch'.pending[1].generation = generation']_vars

\* ------------------------------------------- the revocation specification
\* Sends are answered GENERATION_REVOKED with the signed revocations a
\* server can attach: a well-formed one that revokes us or another member,
\* at the generation we hold for the recipient or not, and the same with
\* one defect: a signature one byte short or one byte long whose first
\* SignatureSize bytes verify, a signature that does not verify, or a
\* revocation that does not unmarshal.
WellFormedRevocations ==
    [present : {TRUE}, generation : 0..(MaxPeerRevs - 1), sigLen : {SignatureSize},
     sigOK : {TRUE}, parses : {TRUE}, hitsUs : BOOLEAN]

SignedRevocations ==
    WellFormedRevocations
    \cup {[r EXCEPT !.sigLen = n] :
            r \in WellFormedRevocations, n \in {SignatureSize - 1, SignatureSize + 1}}
    \cup {[r EXCEPT !.sigOK = FALSE] : r \in WellFormedRevocations}
    \cup {[r EXCEPT !.parses = FALSE] : r \in WellFormedRevocations}

NetSendSignedRevocation ==
    /\ net.pc = "io" /\ ~net.isFetch
    /\ \E r \in SignedRevocations :
          net' = [net EXCEPT !.pc = "postRevoked", !.reply = r]
    /\ NetIdle

NextRevocation ==
    /\ Running
    /\ UNCHANGED <<transfer, conns, mailbox, unsaved>>
    /\ \/ NetLoopTop
       \/ NetDrain
       \/ NetSelect
       \/ resignQueuedMessages
       \/ NetChoose
       \/ NetFails
       \/ NetFetchEmpty
       \/ NetSendSignedRevocation
       \/ NetPostMessageSent
       \/ UserSends
       \/ Enqueues
       \/ processMessageSent
       \/ purgeQueue
       \/ postRevocationUpdate
       \/ FetchNow

SpecRevocation == InitNet /\ [][NextRevocation]_vars

\* the orchestrator takes a message_sent that carries a revocation
RevocationHandled ==
    /\ orch.pc = "idle"
    /\ messageSentChan # <<>>
    /\ messageSentChan' = Tail(messageSentChan)
    /\ Head(messageSentChan).revocation.present

\* C24: a revocation attached to GENERATION_REVOKED is applied only if its
\* generation is the one we hold for the recipient, its signature is
\* exactly SignatureSize bytes long and verifies, and it parses; otherwise
\* the recipient's generation, member key and revoked-us flag stay as they
\* are, the queue is not purged and no revocation update is posted.
C24_RevocationAppliedOnlyIfValid ==
    [][RevocationHandled =>
          LET msr == Head(messageSentChan)
              rev == msr.revocation
              toId == outbox[OutboxIndex(msr.id)].to
              valid == /\ rev.generation = contacts[toId].generation
                       /\ rev.sigLen = SignatureSize
                       /\ rev.sigOK
                       /\ rev.parses
          IN  ~valid => /\ contacts' = contacts
                        /\ queue' = queue
                        /\ orch'.pc = "idle"
                        /\ revocationUpdateChan' = revocationUpdateChan]_vars

\* C25: a step of resignQueuedMessages for the update of contact X changes
\* nothing but the signature and the generation of delivery entries to X:
\* the sealed bytes, the entries to other contacts, the revocation entries,
\* the order and the length of the queue stay as they are, and the step
\* does not fail.
C25_ResignTouchesOnlySignatures ==
    [][(net.pc = "resign" /\ net' # net) =>
          /\ net'.pc # "panic"
          /\ queue' = queue
          /\ Len(outbox') = Len(outbox)
          /\ \A i \in 1..Len(outbox) :
                /\ [outbox'[i] EXCEPT !.signature = outbox[i].signature,
                                      !.generation = outbox[i].generation] = outbox[i]
                /\ (outbox[i].to # net.upd.id \/ outbox[i].revocation) =>
                       outbox'[i] = outbox[i]]_vars

\* C26: revoke(to) appends to every other contact's previousTags the tag
\* its member key had before and updates that key, leaves the member key
\* and the previousTags of the revoked contact alone, appends our group
\* private key as it was before the update to prevGroupPrivs, and hands one
\* revocation entry for the contact and its server to enqueue, which
\* appends it to the queue and to the outbox.
C26_RevokeEffects ==
    [][/\ RevokeStep =>
            \E to \in Contacts :
               /\ ~contacts[to].revoked /\ contacts'[to].revoked
               /\ contacts'[to] = [contacts[to] EXCEPT !.revoked = TRUE]
               /\ \A c \in Contacts \ {to} :
                     contacts'[c] =
                        [contacts[c] EXCEPT
                            !.previousTags = Append(@, <<c, contacts[c].groupKey.ver>>),
                            !.groupKey = [member |-> c, ver |-> contacts[c].groupKey.ver + 1]]
               /\ prevGroupPrivs' = Append(prevGroupPrivs, groupPriv)
               /\ groupPriv' # groupPriv
               /\ Len(orch'.pending) = 1
               /\ orch'.pending[1].revocation
               /\ orch'.pending[1].to = to
               /\ orch'.pending[1].server = contacts[to].theirServer
               /\ outbox' = outbox /\ queue' = queue
       /\ (orch.pc = "enqueue" /\ orch'.pc = "idle" /\ orch.pending[1].revocation) =>
            /\ outbox' = Append(outbox, orch.pending[1])
            /\ queue' = Append(queue, Len(outbox'))
            /\ contacts' = contacts
            /\ prevGroupPrivs' = prevGroupPrivs]_vars

\* C26 witness: both contacts have been revoked, one after the other, and
\* both revocation entries are queued.
C26_TwoRevocationsQueued ==
    /\ \A c \in Contacts : contacts[c].revoked
    /\ Len(prevGroupPrivs) = 2
    /\ Len(queue) = 2
    /\ \A i \in 1..2 : outbox[queue[i]].revocation
    /\ \E c \in Contacts : Len(contacts[c].previousTags) = 1

\* ------------------------------------------------- the fetch specification
\* Fetches return what a server can hold for us: messages from the peer of
\* any contact, pending or not, revoked or not, and from strangers; signed
\* under our current group, under a group we retain, or under none of ours;
\* opening to the current tag of the contact, to one of its previous tags
\* or to no tag we know; sealed by the peer, crafted, or too short.
UnknownTag == <<0, 0>>

FetchedSignatures(c) ==
    [group : {groupPriv, 0 - 2} \cup Range(prevGroupPrivs),
     tag : {Tag(contacts[c].groupKey), UnknownTag} \cup Range(contacts[c].previousTags)]

FetchedSealed(c) ==
    IF contacts[c].isPending
    THEN {Sealed(view, Marshal(m), PeerFresh) :
             view \in {v \in PeerViews(processKeyExchange(contacts[c], c)) :
                          v.supportedVersion = 0},
             m \in {[id |-> 1, inReplyTo |-> 0, dhLen |-> DHPublicLen,
                     myNextDh |-> Pub(100 * c), supportedVersion |-> 0 - 1,
                     body |-> <<>>]}}
    ELSE {Sealed(view, Marshal(m), PeerFresh) :
             view \in {v \in PeerViews(contacts[c]) : v.supportedVersion = 0},
             m \in {[id |-> i, inReplyTo |-> 0, dhLen |-> DHPublicLen,
                     myNextDh |-> contacts[c].theirCurrentDHPublic,
                     supportedVersion |-> 0 - 1, body |-> <<>>] : i \in 1..MaxMsgId}}
         \cup {<<>>}

FetchesSigned ==
    /\ net.pc \in {"top", "drain"}
    /\ orch.pc = "idle"
    /\ Len(inbox) < MaxInbox
    /\ \E c \in Contacts :
         /\ contacts[c].currentDHPrivate < 10 * c + 1 + MaxRatchets
         /\ \E sig \in FetchedSignatures(c), sealed \in FetchedSealed(c) :
              net' = [net EXCEPT !.pc = "newMsg",
                         !.newMessage = [signature |-> sig, message |-> sealed]]
    /\ UNCHANGED <<outbox, queue, queueMutex, revocationUpdateChan, messageSentChan,
                   fetchNowChan, autoFetch>>
    /\ UNCHANGED orchOnly
    /\ UNCHANGED groupVars

NextFetch ==
    /\ Running
    /\ UNCHANGED <<transfer, conns, mailbox, unsaved>>
    /\ \/ FetchesSigned
       \/ processNewMessage
       \/ newContactManual
       \/ unsealPending
       \/ UserRevokes
       \/ Enqueues

SpecFetch == InitPending /\ [][NextFetch]_vars

\* processFetch returns
FetchHandled == net.pc = "newMsg" /\ (net'.pc # "newMsg" \/ orch'.pc = "panic")

\* C27: processFetch adds a message to the inbox only if its group
\* signature verifies under our current or a retained group key, its tag is
\* the current or a previous tag of a contact, that contact is not revoked
\* by us and, unless the contact is pending, the unseal succeeded; it adds
\* one entry of that contact then, and leaves the inbox alone otherwise.
\* No step adds an entry of a contact we have revoked.
C27_InboxOnlyFromVerifiedContacts ==
    [][/\ FetchHandled =>
            LET f == net.newMessage
                senders == {c \in Contacts :
                               /\ \/ f.signature.tag = <<c, contacts[c].groupKey.ver>>
                                  \/ f.signature.tag \in Range(contacts[c].previousTags)
                               /\ ~contacts[c].revoked}
                accepted(c) ==
                    \/ contacts[c].isPending
                    \/ unsealMessage(f.message, c, contacts[c]).ok
            IN  IF /\ \/ f.signature.group = groupPriv
                      \/ f.signature.group \in Range(prevGroupPrivs)
                   /\ Len(f.message) >= 2
                   /\ \E c \in senders : accepted(c)
                THEN /\ Len(inbox') = Len(inbox) + 1
                     /\ Front(inbox') = inbox
                     /\ Last(inbox').from \in senders
                     /\ accepted(Last(inbox').from)
                     /\ Last(inbox').decoded = ~contacts[Last(inbox').from].isPending
                ELSE inbox' = inbox
       /\ Len(inbox') > Len(inbox) =>
            /\ FetchHandled
            /\ ~contacts[Last(inbox').from].revoked]_vars

\* C27 witness: the inbox holds a stored message of a pending contact and
\* an unsealed message, and a contact has been revoked.
C27_StoredUnsealedAndDropped ==
    /\ Len(inbox) = 2
    /\ \E k \in 1..2 : ~inbox[k].decoded
    /\ \E k \in 1..2 : inbox[k].decoded
    /\ \E c \in Contacts : contacts[c].revoked

\* --------------------------------------------- the starvation specification
\* The home server answers every fetch; the servers of the recipients fail
\* or answer with a status that is not OK, so no queued entry is ever
\* delivered.  The timer and the scheduler are fair to the worker.
UndeliverableWorker ==
    \/ NetLoopTop
    \/ NetDrain
    \/ NetSelectFetchNow
    \/ NetSelectTimer
    \/ NetChoose
    \/ NetFails
    \/ NetFetchEmpty
    \/ NetSendRefused

NextUndeliverable ==
    /\ Running
    /\ UNCHANGED <<transfer, conns, mailbox, unsaved>>
    /\ \/ UndeliverableWorker
       \/ UserQueues
       \/ Enqueues
       \/ FetchNow

SpecUndeliverable == InitNet /\ [][NextUndeliverable]_vars

SpecUndeliverableFair ==
    /\ SpecUndeliverable
    /\ WF_vars(Running /\ UNCHANGED <<transfer, conns, mailbox, unsaved>> /\ UndeliverableWorker)
    /\ WF_vars(Running /\ UNCHANGED <<transfer, conns, mailbox, unsaved>> /\ Enqueues)

\* C28: with the timer running, the worker fetches from the home server
\* again and again, whatever the queue holds.
C28_FetchNotStarved ==
    []<>(~autoFetch \/ (net.pc = "io" /\ net.isFetch))

\* ------------------------------------------- the one-fault specification
\* A transfer on a network that fails once: every dial, request and reply
\* succeeds, the server answers an upload with the chunks it holds and a
\* download with the size of its file and sends the file to its end, but
\* one read from or write to the connection fails during the copy loop.
\* The local file may fail at any time.  Nobody cancels the transfer.
LocalError(x) == x.pc = "done" /\ x.err \in {"read", "write"}

\* the iteration from t to x closed the connection on a network error
Dropped(t, x) == t.conn = "open" /\ x.conn = "closed" /\ x.pc = "stream"

\* the connection delivered EOF before the end of the server's file
EarlyEOF(t, x) == ~t.isUpload /\ x.pc = "finish" /\ t.srvPos < ServerSize

CopyLoop(t) == IF t.isUpload THEN uploadChunk(t) ELSE downloadChunk(t)

OneFaultDial ==
    /\ transfer.pc = "connect"
    /\ transfer' = [transfer EXCEPT !.pc = "request", !.conn = "open",
                                    !.openConns = @ + 1, !.backoff = InitialBackoff]
    /\ UNCHANGED clientVars

OneFaultRequest ==
    /\ transfer.pc = "request"
    /\ transfer' = [transfer EXCEPT !.pc = "reply"]
    /\ UNCHANGED clientVars

OneFaultReply ==
    /\ transfer.pc = "reply"
    /\ transfer' = IF transfer.isUpload
                   THEN uploadProcessReply(transfer, Len(transfer.serverGot))
                   ELSE downloadProcessReply(transfer, ServerSize)
    /\ UNCHANGED clientVars

OneFaultChunk ==
    /\ transfer.pc = "stream"
    /\ \E x \in CopyLoop(transfer) :
          /\ ~EarlyEOF(transfer, x)
          /\ IF Dropped(transfer, x)
             THEN /\ transfer.faults = 0
                  /\ transfer' = [x EXCEPT !.faults = 1]
             ELSE transfer' = x
    /\ UNCHANGED clientVars

OneFaultFinish ==
    /\ transfer.pc = "finish"
    /\ IF transfer.transferred < transfer.total
       THEN transfer' = [Closed(transfer) EXCEPT !.pc = "connect"]
       ELSE IF ~transfer.isUpload
               \/ (transfer.conn = "open" /\ Len(transfer.serverGot) = transfer.size)
       THEN transfer' = Returned(Closed(transfer), "ok", "")
       ELSE transfer' = [Closed(transfer) EXCEPT !.pc = "connect"]
    /\ UNCHANGED clientVars

NextOneFault ==
    \/ OneFaultDial
    \/ OneFaultRequest
    \/ OneFaultReply
    \/ OneFaultChunk
    \/ OneFaultFinish

SpecOneFault == InitTransfer /\ [][NextOneFault]_vars

\* the goroutine of the transfer keeps running
SpecOneFaultFair == SpecOneFault /\ WF_vars(NextOneFault)

\* C29: a transfer ends; it ends with success unless the local file
\* failed (a read error of an upload, a write error of a download), also
\* when one read from or write to the connection failed on the way.
C29_TransientErrorRecovers ==
    <>(/\ transfer.pc = "done"
       /\ \/ transfer.result = "ok"
          \/ transfer.isUpload /\ transfer.err = "read"
          \/ ~transfer.isUpload /\ transfer.err = "write")

\* C30: every Download request, the first and each one after a dropped
\* connection, carries as resume offset the number of chunks the local file
\* holds, and when the copy loop of a download ends in success the local
\* file holds the chunks of the server's file, each once and in order.
C30_DownloadResumes ==
    [][~transfer.isUpload =>
          /\ (transfer.pc = "request" /\ transfer'.pc = "reply") =>
                transfer.resume = Len(transfer.file)
          /\ (transfer.pc = "finish" /\ transfer'.pc = "done"
                 /\ transfer'.result = "ok") =>
                transfer'.file = [i \in 1..ServerSize |-> i - 1]]_vars

\* ------------------------------------------------- the ends of a transfer
\* the transfer returns in this step
Returns == transfer.pc # "done" /\ transfer'.pc = "done"

SealedFor(view) == 0 - view.theirCurrentDHPublic

HonestMessages(c, from) ==
    {m \in PeerMessages(c, from) :
        m.dhLen = DHPublicLen /\ Len(Marshal(m)) <= MaxSerializedMessage}

\* lines 172-232 at the peer: the peer's send puts a message into our mailbox
PeerSends ==
    /\ net.pc \in {"top", "drain"}
    /\ orch.pc = "idle"
    /\ Len(mailbox) < MaxMailbox
    /\ \E c \in Contacts \cap (1..NWriters) :
       \E view \in {v \in PeerViews(contacts[c]) : KeysMatch(v, contacts[c])} :
       \E m \in HonestMessages(c, contacts[c]) :
          /\ \A k \in 1..Len(mailbox) :
                /\ SealedFor(mailbox[k].view) <= SealedFor(view)
                /\ 0 - mailbox[k].message.myNextDh <= 0 - m.myNextDh
                /\ mailbox[k].view.lastDHPrivate <= view.lastDHPrivate
                /\ mailbox[k].message.id # m.id
          /\ ~Duplicate(c, m)
          /\ mailbox' = Append(mailbox,
                [from |-> c, view |-> view, message |-> m,
                 sealed |-> Sealed(view, Marshal(m), PeerFresh)])
    /\ UNCHANGED <<contacts, outbox, queue, queueMutex, revocationUpdateChan,
                   messageSentChan, fetchNowChan, net, orch, autoFetch, inbox>>
    /\ UNCHANGED groupVars

\* lines 978-983: a fetch transaction returns one of the waiting messages,
\* whichever the server picks
FetchesFromMailbox ==
    /\ net.pc \in {"top", "drain"}
    /\ orch.pc = "idle"
    /\ Len(inbox) < MaxInbox
    /\ \E k \in 1..Len(mailbox) :
         LET c == mailbox[k].from
         IN  /\ contacts[c].currentDHPrivate < 10 * c + 1 + MaxRatchets
             /\ net' = [net EXCEPT !.pc = "newMsg",
                          !.newMessage = [signature |-> [group |-> groupPriv,
                                                         tag |-> Tag(contacts[c].groupKey)],
                                          message |-> mailbox[k].sealed]]
             /\ mailbox' = SubSeq(mailbox, 1, k - 1) \o SubSeq(mailbox, k + 1, Len(mailbox))
    /\ UNCHANGED <<outbox, queue, queueMutex, revocationUpdateChan, messageSentChan,
                   fetchNowChan, autoFetch>>
    /\ UNCHANGED orchOnly
    /\ UNCHANGED groupVars

NextReorder ==
    /\ Running
    /\ UNCHANGED <<transfer, conns, unsaved>>
    /\ \/ PeerSends
       \/ FetchesFromMailbox
       \/ processNewMessage /\ UNCHANGED mailbox

SpecReorder == InitNet /\ [][NextReorder]_vars

\* C32: every message the peer sealed for us is unsealed when it is
\* fetched, in whatever order the server hands the messages out, also after
\* a later message has advanced our ratchet.
C32_ReorderedMessageUnsealed ==
    [][UnsealStep =>
          unsealMessage(net.newMessage.message, UnsealFrom, contacts[UnsealFrom]).ok]_vars

\* ------------------------------------- the repeated-report specification
\* The peer of every contact has revoked once, at generation 0, and its
\* server attaches that one signed revocation to every delivery for it.
\* The revocation of the last contact's peer revokes us, the others revoke
\* somebody else.  The delivery stays queued and is tried again.
PeerRevocation(c) ==
    [present |-> TRUE, generation |-> 0, sigLen |-> SignatureSize, sigOK |-> TRUE,
     parses |-> TRUE, hitsUs |-> (c = NContacts)]

\* lines 993-996: a send answered GENERATION_REVOKED with the revocation
NetSendSameRevocation ==
    /\ net.pc = "io" /\ ~net.isFetch
    /\ net' = [net EXCEPT !.pc = "postRevoked",
                          !.reply = PeerRevocation(outbox[net.head].to)]
    /\ NetIdle

NextRepeat ==
    /\ Running
    /\ UNCHANGED <<transfer, conns, mailbox, unsaved>>
    /\ \/ NetLoopTop
       \/ NetDrain
       \/ NetSelect
       \/ resignQueuedMessages
       \/ NetChoose
       \/ NetFails
       \/ NetFetchEmpty
       \/ NetSendSameRevocation
       \/ NetPostMessageSent
       \/ UserSends
       \/ Enqueues
       \/ processMessageSent
       \/ purgeQueue
       \/ postRevocationUpdate
       \/ FetchNow

SpecRepeat == InitNet /\ [][NextRepeat]_vars

\* the revocation updates for contact c that are posted and not yet applied
UpdatesInFlight(c) ==
    Cardinality({k \in 1..Len(revocationUpdateChan) : revocationUpdateChan[k].id = c})
        + (IF orch.pc = "postRev" /\ orch.upd.id = c THEN 1 ELSE 0)

\* C33: however often the same signed revocation of a contact's peer is
\* reported, the contact's generation is incremented once, its member key
\* is updated once (not at all when the revocation revokes us), a
\* revocation update is built only in the step that increments the
\* generation, and at most one is in flight.
C33_RevocationAppliedOnce ==
    /\ [](\A c \in Contacts :
            /\ contacts[c].generation \in {0, 1}
            /\ contacts[c].myGroupKey =
                  (IF contacts[c].generation = 1 /\ ~contacts[c].revokedUs THEN 1 ELSE 0)
            /\ UpdatesInFlight(c) <= 1)
    /\ [][\A c \in Contacts :
            (orch.pc # "postRev" /\ orch'.pc = "postRev" /\ orch'.upd.id = c) =>
                /\ contacts[c].generation = 0
                /\ contacts'[c].generation = 1]_vars

\* C33 witness: the revocation of contact 1's peer has been applied and a
\* second report with the same revocation is waiting for the orchestrator
C33_RepeatedReportWaiting ==
    /\ contacts[1].generation = 1
    /\ messageSentChan # <<>>
    /\ outbox[OutboxIndex(Head(messageSentChan).id)].to = 1
    /\ Head(messageSentChan).revocation = PeerRevocation(1)

\* --------------------------------------------- the end-to-end specification
\* Two sides that both run this program.  The account of the model is the
\* peer P that revokes: generation, groupPriv and the revocation entries of
\* the outbox are P's.  Contact c is a member of P's group; the record it
\* keeps of P (generation, myGroupKey, revokedUs) is held in contacts[c],
\* next to the fields P keeps of c (revoked, groupKey, previousTags), and
\* its deliveries to P are the delivery entries with to = c.  The key
\* exchange gave every contact P's generation.  P's server attaches to a
\* delivery the oldest revocation of P that the sender has not applied.
InitEndToEnd ==
    /\ generation \in 0..(2 ^ GenerationBits - 1)
    /\ contacts = [c \in Contacts |->
                     [ContactAfterKeyExchange(c) EXCEPT !.generation = generation]]
    /\ outbox = <<>>
    /\ queue = <<>>
    /\ queueMutex = "free"
    /\ revocationUpdateChan = <<>>
    /\ messageSentChan = <<>>
    /\ fetchNowChan = 0
    /\ net = NetStart
    /\ orch = OrchIdle
    /\ autoFetch = TRUE
    /\ groupPriv = 0
    /\ prevGroupPrivs = <<>>
    /\ inbox = <<>>
    /\ transfer = NoTransfer
    /\ conns = <<>>
    /\ mailbox = <<>>
    /\ unsaved = FALSE

\* the revocations P's server holds, oldest first
ServerRevocations == SelectSeq([i \in 1..Len(outbox) |-> i],
                               LAMBDA i : outbox[i].revocation /\ outbox[i].sent)

\* the revocations of P that contact record `to` has applied
AppliedBy(to) == to.myGroupKey + (IF to.revokedUs THEN 1 ELSE 0)

\* the pond.SignedRevocation the server attaches for the sender `toId`
SignedRevocationOf(entry, toId) ==
    [present |-> TRUE, generation |-> entry.generation, sigLen |-> SignatureSize,
     sigOK |-> TRUE, parses |-> TRUE, hitsUs |-> (entry.to = toId)]

\* lines 963-997: a send; P's server accepts P's revocations and the
\* deliveries of senders that are up to date, and answers the others
\* GENERATION_REVOKED
NetSendToServer ==
    /\ net.pc = "io" /\ ~net.isFetch
    /\ LET m == outbox[net.head]
           to == contacts[m.to]
       IN  IF m.revocation \/ AppliedBy(to) >= Len(ServerRevocations)
           THEN net' = [net EXCEPT !.pc = "remove"]
           ELSE net' = [net EXCEPT !.pc = "postRevoked",
                           !.reply = SignedRevocationOf(
                               outbox[ServerRevocations[AppliedBy(to) + 1]], m.to)]
    /\ NetIdle

NextEndToEnd ==
    /\ Running
    /\ UNCHANGED <<transfer, conns, mailbox, unsaved>>
    /\ \/ NetLoopTop
       \/ NetDrain
       \/ NetSelect
       \/ resignQueuedMessages
       \/ NetChoose
       \/ NetFetchEmpty
       \/ NetSendToServer
       \/ NetRemove
       \/ NetPostMessageSent
       \/ UserSends
       \/ UserRevokes
       \/ Enqueues
       \/ processMessageSent
       \/ purgeQueue
       \/ postRevocationUpdate

SpecEndToEnd == InitEndToEnd /\ [][NextEndToEnd]_vars

\* C34: a revocation of P that reaches a contact P has not revoked, and
\* that the contact has not applied yet, passes the contact's generation
\* check and is applied; a contact P has not
\* revoked that has applied every revocation P made stores P's generation,
\* and one that is k revocations behind stores the generation P had k
\* revocations ago.
C34_GenerationsAgree ==
    /\ [][RevocationHandled =>
            LET msr == Head(messageSentChan)
                toId == outbox[OutboxIndex(msr.id)].to
                to == contacts[toId]
            IN  (/\ ~to.revoked
                 /\ AppliedBy(to) < Len(ServerRevocations)
                 /\ msr.revocation = SignedRevocationOf(
                        outbox[ServerRevocations[AppliedBy(to) + 1]], toId)) =>
                   /\ msr.revocation.generation = contacts[toId].generation
                   /\ contacts'[toId].generation =
                         Uint32(msr.revocation.generation + 1)
                   /\ contacts'[toId].myGroupKey = contacts[toId].myGroupKey + 1]_vars
    /\ [](\A c \in Contacts :
            ~contacts[c].revoked =>
                Uint32(contacts[c].generation + groupPriv - contacts[c].myGroupKey)
                    = generation)

\* C34 witness: P revoked at the last value of the counter and the contact
\* it did not revoke has applied the revocation
C34_AppliedAcrossWrap ==
    \E c \in Contacts :
        /\ ~contacts[c].revoked
        /\ groupPriv = 1
        /\ contacts[c].myGroupKey = 1
        /\ generation = 0
        /\ contacts[c].generation = 0

\* the pond.Message inside sealed bytes that decrypt and parse for `from`
FetchedMessage(sealed, from) ==
    LET d == decryptMessage(Tail(sealed), sealed[1].nonce, from)
    IN  Unmarshal(SubSeq(Tail(d.plaintext), 1, d.plaintext[1]))

\* the decoded inbox entries of contact c that hold message id `id`
DecodedWith(c, id) ==
    {k \in 1..Len(inbox) :
        inbox[k].from = c /\ inbox[k].decoded /\ inbox[k].message.id = id}

\* C35: no two decoded inbox entries of one contact hold the same message
\* id; an unseal is dropped as a duplicate only if a decoded entry of the
\* same contact holds the id of the fetched message, and the inbox is then
\* left alone; an id that only entries of other contacts hold does not
\* make the unseal fail.
C35_DuplicateSuppression ==
    /\ [](\A c \in Contacts : \A id \in 1..MaxMsgId : Cardinality(DecodedWith(c, id)) <= 1)
    /\ [][UnsealStep =>
            LET from == contacts[UnsealFrom]
                sealed == net.newMessage.message
                u == unsealMessage(sealed, UnsealFrom, from)
            IN  /\ u.why = "duplicate" =>
                      /\ DecodedWith(UnsealFrom, FetchedMessage(sealed, from).id) # {}
                      /\ inbox' = inbox
                /\ (u.why \in {"", "duplicate"}
                       /\ DecodedWith(UnsealFrom, FetchedMessage(sealed, from).id) = {}) =>
                      /\ u.ok
                      /\ Len(inbox') = Len(inbox) + 1]_vars

\* C35 witness: two contacts each have a decoded entry with the same
\* message id
C35_SameIdFromTwoContacts ==
    \E i, j \in 1..Len(inbox) :
        /\ inbox[i].from # inbox[j].from
        /\ inbox[i].decoded /\ inbox[j].decoded
        /\ inbox[i].message.id = inbox[j].message.id

\* the step in which client.send seals a message, up to its call of enqueue
SealStep ==
    /\ orch.pc = "idle"
    /\ orch'.pc = "enqueue"
    /\ ~orch'.pending[1].revocation

\* C36: an unseal that succeeds with a my_next_dh other than the stored
\* theirCurrentDHPublic moves the stored value to theirLastDHPublic and
\* stores my_next_dh as theirCurrentDHPublic; with the same my_next_dh both
\* stay as they are; every box send makes for a contact is sealed to the
\* theirCurrentDHPublic the contact holds when send runs.
C36_PeerDHShift ==
    /\ [][UnsealStep =>
            LET before == contacts[UnsealFrom]
                after == contacts'[UnsealFrom]
                u == unsealMessage(net.newMessage.message, UnsealFrom, before)
            IN  u.ok =>
                   IF u.message.myNextDh # before.theirCurrentDHPublic
                   THEN /\ after.theirLastDHPublic = before.theirCurrentDHPublic
                        /\ after.theirCurrentDHPublic = u.message.myNextDh
                   ELSE /\ after.theirLastDHPublic = before.theirLastDHPublic
                        /\ after.theirCurrentDHPublic = before.theirCurrentDHPublic]_vars
    /\ [][SealStep =>
            LET m == orch'.pending[1]
            IN  \A k \in 1..Len(m.sealed) :
                   m.sealed[k].t \in {"box", "pubbox"} =>
                      contacts[m.to].theirCurrentDHPublic \in m.sealed[k].key]_vars

\* C36 witness: the peer of a contact announced a new DH value and a
\* delivery sealed to it is in the outbox
C36_SealedToAnnouncedValue ==
    \E c \in Contacts : \E i \in 1..Len(outbox) :
        /\ contacts[c].theirLastDHPublic = Pub(100 * c)
        /\ contacts[c].theirCurrentDHPublic = Pub(100 * c + 1)
        /\ outbox[i].to = c /\ ~outbox[i].revocation
        /\ \A k \in 1..Len(outbox[i].sealed) :
              outbox[i].sealed[k].t \in {"box", "pubbox"} =>
                 Pub(100 * c + 1) \in outbox[i].sealed[k].key

\* ------------------------------------------------ the backoff specification
\* A transfer whose dials are counted: transfer.failed is the number of
\* dials that failed since the last one that succeeded.
\* lines 1181-1202: dial
BackoffDial ==
    /\ transfer.pc = "connect"
    /\ \/ transfer' = [transfer EXCEPT !.pc = "request", !.conn = "open",
                                       !.openConns = @ + 1,
                                       !.backoff = InitialBackoff,
                                       !.failed = 0]
       \/ /\ transfer.failed < MaxFailedDials
          /\ transfer' = [transfer EXCEPT !.pc = "backoff", !.failed = @ + 1]
    /\ UNCHANGED clientVars

NextBackoff ==
    \/ BackoffDial
    \/ XferBackoff
    \/ XferRequest
    \/ XferReply
    \/ XferChunk
    \/ XferFinish
    \/ XferCancel

SpecBackoff == InitTransfer /\ [][NextBackoff]_vars

\* min(10 s * 2^(k-1), 5 min)
WaitAfter(k) ==
    IF InitialBackoff * 2 ^ (k - 1) < MaxBackoff
    THEN InitialBackoff * 2 ^ (k - 1) ELSE MaxBackoff

\* C37: the wait after the k-th failed dial in a row is
\* min(10 s * 2^(k-1), 5 min); the backoff stays within [10 s, 5 min]; a
\* dial that succeeds sets it to 10 s.
C37_BackoffSchedule ==
    /\ [](transfer.pc = "backoff" => transfer.backoff = WaitAfter(transfer.failed))
    /\ [](InitialBackoff <= transfer.backoff /\ transfer.backoff <= MaxBackoff)
    /\ [][(transfer.pc = "connect" /\ transfer'.pc = "request") =>
             transfer'.backoff = InitialBackoff]_vars

\* C37 witness: the wait after the seventh failed dial in a row
C37_WaitsFiveMinutes ==
    /\ transfer.pc = "backoff"
    /\ transfer.failed = 7
    /\ transfer.backoff = MaxBackoff

\* --------------------------------------------------- the save specification
\* The persistent state is what c.save() writes: the contacts, the inbox
\* and the outbox.  unsaved is TRUE while it differs from what the last
\* c.save() wrote.  The user has written one message to every contact
\* whose peer writes to us and the state was saved; the worker sends them
\* and, once the queue is empty (lines 938-961), fetches.
InitSave ==
    /\ contacts = [c \in Contacts |-> ContactAfterKeyExchange(c)]
    /\ outbox = [i \in 1..NWriters |->
                    DeliveryEntry(i, ContactAfterKeyExchange(i),
                                  OutgoingMessage(i, ContactAfterKeyExchange(i), 0, <<>>),
                                  FreshFor(i))]
    /\ queue = [i \in 1..NWriters |-> i]
    /\ queueMutex = "free"
    /\ revocationUpdateChan = <<>>
    /\ messageSentChan = <<>>
    /\ fetchNowChan = 0
    /\ net = NetStart
    /\ orch = OrchIdle
    /\ autoFetch = TRUE
    /\ groupPriv = 0
    /\ generation = 0
    /\ prevGroupPrivs = <<>>
    /\ inbox = <<>>
    /\ transfer = NoTransfer
    /\ conns = <<>>
    /\ mailbox = <<>>
    /\ unsaved = FALSE

\* lines 575-661: processMessageSent; c.save() is called at line 660 only,
\* behind the return of line 651 that ends the handling of a revocation
processMessageSentSaves ==
    /\ processMessageSent
    /\ unsaved' = IF Head(messageSentChan).revocation.present
                  THEN unsaved \/ contacts' # contacts
                  ELSE FALSE

\* lines 393-477: processFetch; c.save() is called at line 476 only, after
\* the append to c.inbox
processFetchSaves ==
    /\ processNewMessage
    /\ unsaved' = IF inbox' # inbox
                  THEN FALSE
                  ELSE unsaved \/ contacts' # contacts \/ outbox' # outbox

NextSave ==
    /\ Running
    /\ UNCHANGED <<transfer, conns, mailbox>>
    /\ \/ /\ \/ NetLoopTop
             \/ NetDrain
             \/ NetSelect
             \/ resignQueuedMessages
             \/ NetChoose
             \/ NetFetchEmpty
             \/ NetSendAccepted
             \/ NetSendRevoked
             \/ NetRemove
             \/ NetPostMessageSent
             \/ queue = <<>> /\ Fetches
             \/ purgeQueue
             \/ postRevocationUpdate
          /\ UNCHANGED unsaved
       \/ processMessageSentSaves
       \/ processFetchSaves

SpecSave == InitSave /\ [][NextSave]_vars

\* C38: when a handler of the orchestrator has returned, the persistent
\* state is the one the last c.save() wrote.
C38_HandlersSave == orch.pc = "idle" => ~unsaved


\* ------------------------------------------- sealed entries of the inbox
\* C39: outside the loop of newContactManual, every entry of the inbox
\* that is still sealed comes from a contact that is pending.
C39_SealedOnlyWhilePending ==
    orch.pc = "idle" =>
        \A k \in 1..Len(inbox) :
            ~inbox[k].decoded => contacts[inbox[k].from].isPending


\* ------------------------------------------- fetch-now acknowledgements
\* lines 910-914: the worker takes a signal from c.fetchNowChan and keeps
\* its acknowledgement channel in ackChan
AcceptsFetchNow == fetchNowChan' < fetchNowChan

\* lines 871-874: ackChan <- true; ackChan = nil
Acknowledges == net.ackChan /\ ~net'.ackChan

\* lines 932-1003: the worker is between the end of its wait and the end
\* of the transaction
InTransaction == net.pc \in {"choose", "io", "newMsg", "remove", "postSent", "postRevoked"}

\* lines 963-1003: the step that ends a transaction: a failed dial, write
\* or read, a reply that needs no handling, the acknowledgement of the
\* orchestrator for a fetched message, or the send on messageSentChan
TransactionEnds == InTransaction /\ net'.pc = "drain"

====
